---------------------------- MODULE Spec2Model ----------------------------
(***************************************************************************)
(* A model of the Transformation Plan Engine of PFI-TransformAR:           *)
(*   - nlp/apply_plan.py        execute_plan and its helpers               *)
(*   - nlp/instruction_qwen.py  interpret_with_qwen (LLM plan + heuristic) *)
(*   - input/currency_converter.py  CurrencyConverter (cache, fetch,       *)
(*                                  convert)                               *)
(* Python strings are TLA+ strings (TLC evaluates Len, \o and SubSeq on    *)
(* them); other Python values are tagged records, see PyVal below.         *)
(***************************************************************************)
EXTENDS Integers, Sequences, FiniteSets, TLC

(***************************************************************************)
(* State                                                                   *)
(***************************************************************************)
\* execute_plan (nlp/apply_plan.py)
VARIABLES
    tags_or_list,  \* the first argument of execute_plan
    plan,          \* the plan: a sequence of steps
    docs,          \* the documents of the batch, mutated in place
    di,            \* the position of `for doc in docs`
    si,            \* the position of `for step in plan` for the current doc
    keep,          \* the local keep of the current document
    out,           \* the list returned: positions in docs (references)
    epc,           \* "start", "running", "done" (returned) or "raised"
    applied        \* history: the steps run, [doc, step, op, dropped]

execVars == <<tags_or_list, plan, docs, di, si, keep, out, epc, applied>>

\* interpret_with_qwen (nlp/instruction_qwen.py)
VARIABLES
    text,          \* the instruction, stripped once the call has started
    raw,           \* what client.chat_json returned
    plan_llm,      \* the steps kept from the reply
    plan_h,        \* the plan of _heuristic_plan
    final_plan,    \* the plan returned
    meta,          \* the meta returned
    cpc,           \* "start", "chat", "parse", "heuristic", "select", "done", "raised"
    chat           \* history: "none", "ok" (a reply came) or "failed"

compVars == <<text, raw, plan_llm, plan_h, final_plan, meta, cpc, chat>>

\* CurrencyConverter (input/currency_converter.py)
VARIABLES
    names,         \* the directory: file name -> file (0: no such name)
    files,         \* the files: their content and modification time
    now,           \* time.time()
    calls,         \* per caller: the call it runs and where it stands
    remote,        \* what each remote source serves for each base
    reqlog         \* history: the cache reads and remote requests, in order

rateVars == <<names, files, now, calls, remote, reqlog>>

\* the registered operations (nlp/ops/builtins.py): one call op(doc, step)
VARIABLES
    odoc,          \* the document, mutated in place
    ostep,         \* the step
    opc,           \* "idle", "ready", inside convert_units "pint"/"fallback", "done", "raised"
    oret,          \* what the operation returned
    env,           \* what the collaborators answer during the call
    olog           \* history: the calls to the semantic service, in order

opsVars == <<odoc, ostep, opc, oret, env, olog>>

\* the unit engine (nlp/ops/unit_convert_engine.py)
VARIABLES
    ureg,          \* the units defined in the registry _ureg of the process
    uw             \* per worker: the call of apply_convert_units it runs

unitVars == <<ureg, uw>>

\* interpret_with_spacy (nlp/instruction_spacy.py)
VARIABLES
    raw_text,      \* the instruction
    intents,       \* what detect_intents found
    slots,         \* the slots, normalized
    spacy_plan,    \* the plan returned
    report,        \* the decisions of the report returned, in order
    spc            \* "start", "slots" (intents and slots are there), "done"

spacyVars == <<raw_text, intents, slots, spacy_plan, report, spc>>

vars == <<execVars, compVars, rateVars, opsVars, unitVars, spacyVars>>

(***************************************************************************)
(* Characters and strings                                                  *)
(***************************************************************************)
\* s[i-1:i]: the character at position i (from 1), "" outside the string
Ch(s, i) == IF i >= 1 /\ i <= Len(s) THEN SubSeq(s, i, i) ELSE ""

UpperChars == "ABCDEFGHIJKLMNOPQRSTUVWXYZÁÉÍÓÚÜÑ"
LowerChars == "abcdefghijklmnopqrstuvwxyzáéíóúüñ"
\* NFD decomposition followed by removal of the combining marks (category Mn)
AccentedChars   == "áéíóúüñÁÉÍÓÚÜÑ"
UnaccentedChars == "aeiouunAEIOUUN"
DigitChars == "0123456789"
SpaceChars == " \t\n\r"

RECURSIVE IndexFrom(_, _, _)
IndexFrom(c, s, i) ==
    IF i > Len(s) THEN 0
    ELSE IF Ch(s, i) = c THEN i ELSE IndexFrom(c, s, i + 1)

\* str.find(c) + 1 for a one-character c: 0 when absent
IndexOf(c, s) == IndexFrom(c, s, 1)

InStr(c, s) == IndexOf(c, s) # 0

IsDigit(c) == InStr(c, DigitChars)
IsSpace(c) == InStr(c, SpaceChars)

RECURSIVE TranslateFrom(_, _, _, _)
TranslateFrom(s, from, to, i) ==
    IF i > Len(s) THEN ""
    ELSE LET c == Ch(s, i)
             j == IndexOf(c, from)
         IN  (IF j = 0 THEN c ELSE Ch(to, j)) \o TranslateFrom(s, from, to, i + 1)

\* str.lower()
Lower(s) == TranslateFrom(s, UpperChars, LowerChars, 1)
\* str.upper()
Upper(s) == TranslateFrom(s, LowerChars, UpperChars, 1)
\* "".join(c for c in unicodedata.normalize("NFD", s) if category(c) != "Mn")
StripMarks(s) == TranslateFrom(s, AccentedChars, UnaccentedChars, 1)

RECURSIVE LStripAt(_, _)
LStripAt(s, i) ==
    IF i > Len(s) THEN i
    ELSE IF IsSpace(Ch(s, i)) THEN LStripAt(s, i + 1) ELSE i

RECURSIVE RStripAt(_, _)
RStripAt(s, j) ==
    IF j < 1 THEN j
    ELSE IF IsSpace(Ch(s, j)) THEN RStripAt(s, j - 1) ELSE j

\* str.strip()
Strip(s) == LET i == LStripAt(s, 1) IN
            IF i > Len(s) THEN "" ELSE SubSeq(s, i, RStripAt(s, Len(s)))

RECURSIVE KeepFrom(_, _, _)
KeepFrom(s, allowed, i) ==
    IF i > Len(s) THEN ""
    ELSE (IF InStr(Ch(s, i), allowed) THEN Ch(s, i) ELSE "") \o KeepFrom(s, allowed, i + 1)

\* re.sub(r"[^<allowed>]+", "", s)
KeepChars(s, allowed) == KeepFrom(s, allowed, 1)

RECURSIVE DropFrom(_, _, _)
DropFrom(s, c, i) ==
    IF i > Len(s) THEN ""
    ELSE (IF Ch(s, i) = c THEN "" ELSE Ch(s, i)) \o DropFrom(s, c, i + 1)

\* s.replace(c, "") for a one-character c
DropChar(s, c) == DropFrom(s, c, 1)

\* s.replace(a, b) for one-character a and b
ReplaceChar(s, a, b) == TranslateFrom(s, a, b, 1)

RECURSIVE ContainsFrom(_, _, _)
ContainsFrom(needle, hay, i) ==
    IF i + Len(needle) - 1 > Len(hay) THEN FALSE
    ELSE IF SubSeq(hay, i, i + Len(needle) - 1) = needle THEN TRUE
    ELSE ContainsFrom(needle, hay, i + 1)

\* needle in hay
Contains(needle, hay) == IF needle = "" THEN TRUE ELSE ContainsFrom(needle, hay, 1)

RECURSIVE AllDigitsFrom(_, _)
AllDigitsFrom(s, i) ==
    IF i > Len(s) THEN TRUE
    ELSE IsDigit(Ch(s, i)) /\ AllDigitsFrom(s, i + 1)

AllDigits(s) == AllDigitsFrom(s, 1)

RECURSIVE DigitsToNat(_, _, _)
DigitsToNat(s, i, acc) ==
    IF i > Len(s) THEN acc
    ELSE DigitsToNat(s, i + 1, acc * 10 + (IndexOf(Ch(s, i), DigitChars) - 1))

\* int(s) for a string of decimal digits ("" gives 0)
ToNat(s) == DigitsToNat(s, 1, 0)

RECURSIVE NatToStr(_)
NatToStr(n) ==
    IF n < 10 THEN Ch(DigitChars, n + 1)
    ELSE NatToStr(n \div 10) \o Ch(DigitChars, (n % 10) + 1)

\* str(n) for an int
IntToStr(n) == IF n < 0 THEN "-" \o NatToStr(0 - n) ELSE NatToStr(n)

RECURSIVE Pow10(_)
Pow10(k) == IF k = 0 THEN 1 ELSE 10 * Pow10(k - 1)

RECURSIVE ZeroPad(_, _)
ZeroPad(s, w) == IF Len(s) >= w THEN s ELSE ZeroPad("0" \o s, w)


(***************************************************************************)
(* Numbers: a Python float is modelled by the exact rational n/d (d > 0).  *)
(***************************************************************************)
Rat(n, d) == [ok |-> TRUE, n |-> n, d |-> d]
\* the None that _parse_number returns
NoNum == [ok |-> FALSE, n |-> 0, d |-> 1]

RECURSIVE Gcd(_, _)
Gcd(a, b) == IF b = 0 THEN a ELSE Gcd(b, a % b)

Abs(n) == IF n < 0 THEN 0 - n ELSE n

RatLt(a, b) == a.n * b.d < b.n * a.d
RatLe(a, b) == a.n * b.d <= b.n * a.d
\* the product in lowest terms (the factors are cancelled before multiplying:
\* TLC's integers are 32 bits wide)
RatMul(a, b) ==
    LET g1 == Gcd(Abs(a.n), b.d)
        g2 == Gcd(Abs(b.n), a.d)
        h1 == IF g1 = 0 THEN 1 ELSE g1
        h2 == IF g2 = 0 THEN 1 ELSE g2
    IN  Rat((a.n \div h1) * (b.n \div h2), (a.d \div h2) * (b.d \div h1))
\* a / b for b # 0
RatDiv(a, b) == RatMul(a, IF b.n < 0 THEN Rat(0 - b.d, 0 - b.n) ELSE Rat(b.d, b.n))

\* float(v) for v made of digits, "." and "-" only: [sign] digits [. digits]
\* with at least one digit; anything else is the ValueError (NoNum)
ParseFloat(v) ==
    LET neg  == Len(v) > 0 /\ Ch(v, 1) = "-"
        body == IF neg THEN SubSeq(v, 2, Len(v)) ELSE v
        dot  == IndexOf(".", body)
        ip   == IF dot = 0 THEN body ELSE SubSeq(body, 1, dot - 1)
        fp   == IF dot = 0 THEN "" ELSE SubSeq(body, dot + 1, Len(body))
    IN  IF AllDigits(ip) /\ AllDigits(fp) /\ Len(ip) + Len(fp) > 0
        THEN LET m == ToNat(ip \o fp)
             IN  Rat(IF neg THEN 0 - m ELSE m, Pow10(Len(fp)))
        ELSE NoNum

\* f"{x:.2f}": x rounded to two decimals (ties to even), by long division
Format2f(x) ==
    LET neg == x.n < 0
        an  == Abs(x.n)
        ip  == an \div x.d
        r0  == an % x.d
        d1  == (r0 * 10) \div x.d
        r1  == (r0 * 10) % x.d
        d2  == (r1 * 10) \div x.d
        r2  == (r1 * 10) % x.d
        q   == ip * 100 + d1 * 10 + d2
        up  == (2 * r2 > x.d) \/ (2 * r2 = x.d /\ q % 2 = 1)
        h   == IF up THEN q + 1 ELSE q
    IN  (IF neg THEN "-" ELSE "")
        \o NatToStr(h \div 100) \o "." \o ZeroPad(NatToStr(h % 100), 2)

(***************************************************************************)
(* Python values.  Every value is a record [t, s, xs]: t the type, s the   *)
(* text of a str (or the decimal digits of an int), xs the entries [k, v]  *)
(* of a dict in insertion order, or the elements of a list (as entries     *)
(* with k = "").  The keys of a dict are strings.                          *)
(***************************************************************************)
Entry(k, x) == [k |-> k, v |-> x]

RECURSIVE AsEntries(_)
AsEntries(vals) ==
    IF Len(vals) = 0 THEN <<>> ELSE <<Entry("", Head(vals))>> \o AsEntries(Tail(vals))

PyNone     == [t |-> "none", s |-> "", xs |-> <<>>]
PyStr(s)   == [t |-> "str",  s |-> s,  xs |-> <<>>]
PyInt(n)   == [t |-> "int",  s |-> IntToStr(n), xs |-> <<>>]
\* a float, given by its decimal text
PyFloat(s) == [t |-> "float", s |-> s, xs |-> <<>>]
PyDict(es) == [t |-> "dict", s |-> "", xs |-> es]
PyList(vals) == [t |-> "list", s |-> "", xs |-> AsEntries(vals)]

\* True / False
PyBool(b)  == [t |-> "bool", s |-> IF b THEN "True" ELSE "False", xs |-> <<>>]

IsNone(x) == x.t = "none"
IsStr(x)  == x.t = "str"
IsInt(x)  == x.t = "int"
IsDict(x) == x.t = "dict"
IsList(x) == x.t = "list"

\* bool(x)
Truthy(x) ==
    CASE x.t = "none" -> FALSE
      [] x.t = "str"  -> x.s # ""
      [] x.t = "int"  -> x.s # "0"
      [] x.t = "bool" -> x.s = "True"
      [] x.t = "float" -> ParseFloat(x.s).n # 0
      [] OTHER        -> Len(x.xs) > 0

RECURSIVE Repr(_)
RECURSIVE ReprEntries(_, _, _)
\* repr(x) (strings without characters that need escaping)
Repr(x) ==
    CASE x.t = "none" -> "None"
      [] x.t = "str"  -> "'" \o x.s \o "'"
      [] x.t \in {"int", "float", "bool"} -> x.s
      [] x.t = "dict" -> "{" \o ReprEntries(x.xs, 1, TRUE) \o "}"
      [] OTHER        -> "[" \o ReprEntries(x.xs, 1, FALSE) \o "]"
ReprEntries(es, i, keyed) ==
    IF i > Len(es) THEN ""
    ELSE (IF i > 1 THEN ", " ELSE "")
         \o (IF keyed THEN "'" \o es[i].k \o "': " ELSE "")
         \o Repr(es[i].v) \o ReprEntries(es, i + 1, keyed)

\* str(x)
Str(x) == IF x.t = "str" THEN x.s ELSE Repr(x)

RECURSIVE KeyIndexFrom(_, _, _)
KeyIndexFrom(es, k, i) ==
    IF i > Len(es) THEN 0
    ELSE IF es[i].k = k THEN i ELSE KeyIndexFrom(es, k, i + 1)

\* position of key k among the entries of a dict, 0 when absent
KeyIndex(d, k) == KeyIndexFrom(d.xs, k, 1)
\* k in d
HasKey(d, k) == KeyIndex(d, k) # 0
\* d.get(k)
DictGet(d, k) == IF HasKey(d, k) THEN d.xs[KeyIndex(d, k)].v ELSE PyNone
\* d[k] = x
DictSet(d, k, x) ==
    IF HasKey(d, k)
    THEN PyDict([d.xs EXCEPT ![KeyIndex(d, k)] = Entry(k, x)])
    ELSE PyDict(Append(d.xs, Entry(k, x)))
\* d.pop(k), the dict that is left
DictPop(d, k) ==
    LET i == KeyIndex(d, k)
    IN  IF i = 0 THEN d
        ELSE PyDict(SubSeq(d.xs, 1, i - 1) \o SubSeq(d.xs, i + 1, Len(d.xs)))
\* lst[i] = x (i from 1)
ListSet(lst, i, x) == [lst EXCEPT !.xs[i] = Entry("", x)]

(***************************************************************************)
(* datetime.strptime / strftime for the directives %Y %m %d %y %B %b       *)
(* (C locale).  A date is [ok, y, m, d]; ok = FALSE is the ValueError.     *)
(***************************************************************************)
NoDate == [ok |-> FALSE, y |-> 0, m |-> 0, d |-> 0]
MonthNames == <<"january", "february", "march", "april", "may", "june", "july",
                "august", "september", "october", "november", "december">>

IsLeap(y) == (y % 4 = 0 /\ y % 100 # 0) \/ y % 400 = 0
DaysInMonth(y, m) ==
    IF m = 2 THEN (IF IsLeap(y) THEN 29 ELSE 28)
    ELSE IF m \in {4, 6, 9, 11} THEN 30 ELSE 31

\* datetime(y, m, d): the ValueError of an impossible date
MkDate(y, m, d) ==
    IF y >= 1 /\ y <= 9999 /\ m >= 1 /\ m <= 12 /\ d >= 1 /\ d <= DaysInMonth(y, m)
    THEN [ok |-> TRUE, y |-> y, m |-> m, d |-> d]
    ELSE NoDate

\* the number of characters of s at i that the directive's regex takes, 0: no match
\*   %d  3[0-1]|[1-2]\d|0[1-9]|[1-9]| [1-9]      %m  1[0-2]|0[1-9]|[1-9]
FieldLen(s, i, dir) ==
    LET c1 == Ch(s, i)
        c2 == Ch(s, i + 1)
    IN  CASE dir = "Y" -> IF i + 3 <= Len(s) /\ AllDigits(SubSeq(s, i, i + 3)) THEN 4 ELSE 0
          [] dir = "y" -> IF i + 1 <= Len(s) /\ AllDigits(SubSeq(s, i, i + 1)) THEN 2 ELSE 0
          [] dir = "m" -> IF (c1 = "1" /\ InStr(c2, "012") /\ c2 # "")
                             \/ (c1 = "0" /\ InStr(c2, "123456789") /\ c2 # "") THEN 2
                          ELSE IF c1 # "" /\ InStr(c1, "123456789") THEN 1 ELSE 0
          [] dir = "d" -> IF (c1 = "3" /\ InStr(c2, "01") /\ c2 # "")
                             \/ (c1 # "" /\ InStr(c1, "12") /\ c2 # "" /\ IsDigit(c2))
                             \/ (c1 = "0" /\ InStr(c2, "123456789") /\ c2 # "")
                             \/ (c1 = " " /\ InStr(c2, "123456789") /\ c2 # "") THEN 2
                          ELSE IF c1 # "" /\ InStr(c1, "123456789") THEN 1 ELSE 0
          [] OTHER -> 0

RECURSIVE MonthAt(_, _, _, _)
\* the month whose name (abbreviated to three letters when abbr) is at s[i..]
MonthAt(s, i, abbr, k) ==
    IF k > 12 THEN 0
    ELSE LET name == IF abbr THEN SubSeq(MonthNames[k], 1, 3) ELSE MonthNames[k]
         IN  IF i + Len(name) - 1 <= Len(s) /\ Lower(SubSeq(s, i, i + Len(name) - 1)) = name
             THEN k ELSE MonthAt(s, i, abbr, k + 1)

RECURSIVE StrptimeFrom(_, _, _, _, _)
StrptimeFrom(s, i, fmt, j, acc) ==
    IF j > Len(fmt)
    THEN IF i > Len(s) THEN MkDate(acc.y, acc.m, acc.d) ELSE NoDate
    ELSE LET c == Ch(fmt, j) IN
      IF c = "%" THEN
        LET dir == Ch(fmt, j + 1) IN
        IF dir \in {"B", "b"} THEN
          LET k == MonthAt(s, i, dir = "b", 1) IN
          IF k = 0 THEN NoDate
          ELSE StrptimeFrom(s, i + (IF dir = "b" THEN 3 ELSE Len(MonthNames[k])), fmt, j + 2,
                            [acc EXCEPT !.m = k])
        ELSE
          LET n == FieldLen(s, i, dir)
              v == ToNat(Strip(SubSeq(s, i, i + n - 1)))
          IN  IF n = 0 THEN NoDate
              ELSE StrptimeFrom(s, i + n, fmt, j + 2,
                     CASE dir = "Y" -> [acc EXCEPT !.y = v]
                       [] dir = "y" -> [acc EXCEPT !.y = IF v < 69 THEN 2000 + v ELSE 1900 + v]
                       [] dir = "m" -> [acc EXCEPT !.m = v]
                       [] OTHER     -> [acc EXCEPT !.d = v])
      ELSE IF IsSpace(c) THEN
        \* white space of the format matches \s+
        LET k == LStripAt(s, i) IN
        IF k = i THEN NoDate ELSE StrptimeFrom(s, k, fmt, LStripAt(fmt, j), acc)
      ELSE IF i <= Len(s) /\ Lower(Ch(s, i)) = Lower(c)
           THEN StrptimeFrom(s, i + 1, fmt, j + 1, acc) ELSE NoDate

\* datetime.strptime(s, fmt)
Strptime(s, fmt) == StrptimeFrom(s, 1, fmt, 1, [y |-> 1900, m |-> 1, d |-> 1])

Capitalize(w) == Upper(Ch(w, 1)) \o SubSeq(w, 2, Len(w))

RECURSIVE StrftimeFrom(_, _, _)
StrftimeFrom(dt, fmt, j) ==
    IF j > Len(fmt) THEN ""
    ELSE IF Ch(fmt, j) = "%" /\ j < Len(fmt)
    THEN LET dir == Ch(fmt, j + 1)
         IN  (CASE dir = "Y" -> NatToStr(dt.y)
                [] dir = "y" -> ZeroPad(NatToStr(dt.y % 100), 2)
                [] dir = "m" -> ZeroPad(NatToStr(dt.m), 2)
                [] dir = "d" -> ZeroPad(NatToStr(dt.d), 2)
                [] dir = "B" -> Capitalize(MonthNames[dt.m])
                [] dir = "b" -> Capitalize(SubSeq(MonthNames[dt.m], 1, 3))
                [] dir = "%" -> "%"
                [] OTHER     -> "%" \o dir)
             \o StrftimeFrom(dt, fmt, j + 2)
    ELSE Ch(fmt, j) \o StrftimeFrom(dt, fmt, j + 1)

\* dt.strftime(fmt)
Strftime(dt, fmt) == StrftimeFrom(dt, fmt, 1)

\* dl <= dv  on datetimes
DateLe(a, b) == a.y * 10000 + a.m * 100 + a.d <= b.y * 10000 + b.m * 100 + b.d


(***************************************************************************)
(* nlp/apply_plan.py: helpers                                              *)
(***************************************************************************)
_norm(x) == Strip(IF IsNone(x) THEN "" ELSE Str(x))

_nkey(x) == Strip(Lower(StripMarks(Str(x))))

NumChars == "0123456789.-"

_parse_number(value) ==
    IF IsNone(value) THEN NoNum
    ELSE LET v == Strip(Str(value)) IN
         IF v = "" THEN NoNum
         ELSE LET w == IF InStr(",", v) /\ InStr(".", v)
                       THEN IF IndexOf(",", v) > IndexOf(".", v)
                            THEN ReplaceChar(DropChar(v, "."), ",", ".")
                            ELSE DropChar(v, ",")
                       ELSE IF InStr(",", v) THEN ReplaceChar(v, ",", ".") ELSE v
              IN  ParseFloat(KeepChars(w, NumChars))

_LEN_MM == ("mm" :> Rat(1, 1)) @@ ("cm" :> Rat(10, 1)) @@ ("m" :> Rat(1000, 1))
           @@ ("in" :> Rat(254, 10)) @@ ("\"" :> Rat(254, 10)) @@ ("inch" :> Rat(254, 10))
           @@ ("pulgada" :> Rat(254, 10)) @@ ("pulgadas" :> Rat(254, 10))
_W_G    == ("g" :> Rat(1, 1)) @@ ("kg" :> Rat(1000, 1))
           @@ ("lb" :> Rat(45359237, 100000)) @@ ("lbs" :> Rat(45359237, 100000))
_V_ML   == ("ml" :> Rat(1, 1)) @@ ("l" :> Rat(1000, 1)) @@ ("lt" :> Rat(1000, 1))
           @@ ("litro" :> Rat(1000, 1)) @@ ("litros" :> Rat(1000, 1))

RECURSIVE SpanEnd(_, _, _)
\* the index after the longest run of characters of `allowed` that starts at i
SpanEnd(s, i, allowed) ==
    IF i <= Len(s) /\ InStr(Ch(s, i), allowed) THEN SpanEnd(s, i + 1, allowed) ELSE i

NumTokenChars == "0123456789.,-"
\* [a-záéíóú"] (the typographic quote U+201D of the source's class is outside
\* the character set of the model's strings and is left out)
UnitTokenChars == "abcdefghijklmnopqrstuvwxyzáéíóú\""

\* (value, unit) of "12 cm", "cm 12", '12"' or "12"; u = "" is the unit None
MatchValUnit(t, n1, a1, n2, a2) ==
    IF n1 > 1 /\ a1 = Len(t) /\ Ch(t, a1) = "\""
    THEN [v |-> _parse_number(PyStr(SubSeq(t, 1, n1 - 1))), u |-> "in"]
    ELSE IF n1 > 1 /\ SpanEnd(t, a1, UnitTokenChars) > a1 /\ SpanEnd(t, a1, UnitTokenChars) > Len(t)
    THEN [v |-> _parse_number(PyStr(SubSeq(t, 1, n1 - 1))), u |-> SubSeq(t, a1, Len(t))]
    ELSE IF n2 > 1 /\ SpanEnd(t, a2, NumTokenChars) > a2 /\ SpanEnd(t, a2, NumTokenChars) > Len(t)
    THEN [v |-> _parse_number(PyStr(SubSeq(t, a2, Len(t)))), u |-> SubSeq(t, 1, n2 - 1)]
    ELSE [v |-> _parse_number(PyStr(t)), u |-> ""]

\* the three patterns over s = str(x).strip().lower(): number then unit
\* (or the inch sign), unit then number, else the whole text as a number
MatchValUnitText(t) ==
    MatchValUnit(t, SpanEnd(t, 1, NumTokenChars), LStripAt(t, SpanEnd(t, 1, NumTokenChars)),
                    SpanEnd(t, 1, UnitTokenChars), LStripAt(t, SpanEnd(t, 1, UnitTokenChars)))

_parse_val_unit(x) ==
    IF IsNone(x) THEN [v |-> NoNum, u |-> ""]
    ELSE MatchValUnitText(Lower(Strip(Str(x))))

UnitOf(vu, tg, table, base) ==
    IF ~vu.v.ok THEN PyNone
    ELSE IF vu.u \in DOMAIN table
    THEN IF tg \notin DOMAIN table
         THEN PyStr(Format2f(RatMul(vu.v, table[vu.u])) \o " " \o base)
         ELSE PyStr(Format2f(RatDiv(RatMul(vu.v, table[vu.u]), table[tg])) \o " " \o tg)
    ELSE IF vu.u = "" THEN PyStr(Format2f(vu.v) \o " " \o tg)
    ELSE PyStr(Format2f(vu.v) \o " " \o vu.u)

\* the common body of _len_to, _w_to and _v_to: `table` the factors to the
\* base unit `base`; the result is a str or None
UnitTo(value, target, table, base) == UnitOf(_parse_val_unit(value), Lower(target), table, base)

_len_to(value, target) == UnitTo(value, target, _LEN_MM, "mm")
_w_to(value, target)   == UnitTo(value, target, _W_G, "g")
_v_to(value, target)   == UnitTo(value, target, _V_ML, "ml")

\* x.lower() / x.upper() raise AttributeError unless x is a str
AttrRaises(x) == ~IsStr(x)

\* (target or "").lower() raises for a target that is truthy and no str
_convert_units_scalar_raises(target) == Truthy(target) /\ AttrRaises(target)

_convert_units_scalar(value, target) ==
    LET t == IF Truthy(target) THEN Lower(target.s) ELSE ""
    IN  IF t \in DOMAIN _LEN_MM THEN _len_to(value, t)
        ELSE IF t \in DOMAIN _W_G THEN _w_to(value, t)
        ELSE IF t \in DOMAIN _V_ML THEN _v_to(value, t)
        ELSE IF IsNone(value) THEN PyNone
        ELSE PyStr(Str(value) \o " (" \o Str(target) \o ")")

_SCHEMA_MAP ==
       ("fecha" :> <<"dates", "issue_date">>) @@ ("date" :> <<"dates", "issue_date">>)
    @@ ("fec" :> <<"dates", "issue_date">>)
    @@ ("monto" :> <<"totals", "total">>) @@ ("importe" :> <<"totals", "total">>)
    @@ ("total" :> <<"totals", "total">>) @@ ("amount" :> <<"totals", "total">>)
    @@ ("moneda" :> <<"totals", "currency">>) @@ ("currency" :> <<"totals", "currency">>)
    @@ ("divisa" :> <<"totals", "currency">>)
    @@ ("descripcion" :> <<"items", "*", "description">>)
    @@ ("description" :> <<"items", "*", "description">>)
    @@ ("largo" :> <<"items", "*", "largo">>) @@ ("ancho" :> <<"items", "*", "ancho">>)
    @@ ("alto" :> <<"items", "*", "alto">>)

\* the path of a logical column; <<>> is the None of an unmapped column
_get_path_for_column(column) ==
    IF _nkey(column) \in DOMAIN _SCHEMA_MAP THEN _SCHEMA_MAP[_nkey(column)] ELSE <<>>

_ensure_obj(d, k) ==
    IF ~HasKey(d, k) \/ ~IsDict(DictGet(d, k)) THEN DictSet(d, k, PyDict(<<>>)) ELSE d

RECURSIVE GetByPathFrom(_, _, _)
GetByPathFrom(cur, path, i) ==
    IF i > Len(path) THEN cur
    ELSE IF path[i] = "*" THEN (IF IsList(cur) THEN cur ELSE PyNone)
    ELSE IF ~IsDict(cur) \/ ~HasKey(cur, path[i]) THEN PyNone
    ELSE GetByPathFrom(DictGet(cur, path[i]), path, i + 1)

_get_value_by_path(tags, path) == GetByPathFrom(tags, path, 1)

RECURSIVE SetByPathFrom(_, _, _, _)
\* cur after _set_value_by_path's loop from position i of path
SetByPathFrom(cur, path, i, value) ==
    IF i > Len(path) THEN cur
    ELSE IF path[i] = "*"
    THEN IF ~IsList(cur) THEN cur
         ELSE [cur EXCEPT !.xs =
                 [j \in DOMAIN cur.xs |->
                    IF IsDict(cur.xs[j].v)
                    THEN Entry("", SetByPathFrom(cur.xs[j].v, SubSeq(path, i + 1, Len(path)), 1, value))
                    ELSE cur.xs[j]]]
    ELSE IF i = Len(path) THEN DictSet(cur, path[i], value)
    ELSE LET e == _ensure_obj(cur, path[i])
         IN  DictSet(e, path[i], SetByPathFrom(DictGet(e, path[i]), path, i + 1, value))

_set_value_by_path(tags, path, value) == SetByPathFrom(tags, path, 1, value)

InferFormats == <<"%Y-%m-%d", "%d/%m/%Y", "%d-%m-%Y", "%Y/%m/%d", "%d.%m.%Y", "%d %B %Y", "%d %b %Y">>

RECURSIVE TryFormats(_, _, _, _)
\* the first format of fmts (from k) that parses s, printed with output_fmt
TryFormats(s, fmts, k, output_fmt) ==
    IF k > Len(fmts) THEN PyNone
    ELSE IF Strptime(s, fmts[k]).ok THEN PyStr(Strftime(Strptime(s, fmts[k]), output_fmt))
    ELSE TryFormats(s, fmts, k + 1, output_fmt)

\* input_fmt and output_fmt are Python values: strptime and strftime raise the
\* TypeError that the except clauses swallow when they are not str
_format_date(val, input_fmt, output_fmt) ==
    LET s == _norm(val) IN
    IF s = "" THEN PyNone
    ELSE IF Truthy(input_fmt) /\ input_fmt # PyStr("infer")
    THEN IF IsStr(input_fmt) /\ IsStr(output_fmt) /\ Strptime(s, input_fmt.s).ok
         THEN PyStr(Strftime(Strptime(s, input_fmt.s), output_fmt.s))
         ELSE PyNone
    ELSE IF ~IsStr(output_fmt) THEN PyNone
    ELSE TryFormats(s, InferFormats, 1, output_fmt.s)

_filter_compare_ok(a, cmpop, b) ==
    CASE cmpop = PyStr("<")  -> RatLt(a, b)
      [] cmpop = PyStr("<=") -> RatLe(a, b)
      [] cmpop = PyStr(">")  -> RatLt(b, a)
      [] cmpop = PyStr(">=") -> RatLe(b, a)
      [] OTHER -> FALSE

AsDateFormats == <<"%Y-%m-%d", "%d/%m/%Y", "%d-%m-%Y", "%Y/%m/%d">>

RECURSIVE AsDateFrom(_, _)
AsDateFrom(s, k) ==
    IF k > Len(AsDateFormats) THEN NoDate
    ELSE IF Strptime(s, AsDateFormats[k]).ok THEN Strptime(s, AsDateFormats[k])
    ELSE AsDateFrom(s, k + 1)

_as_date(x) == AsDateFrom(Str(x), 1)

\* the date-range test when the three parse as dates, the numeric range otherwise
BetweenOk(v, lo, hi) ==
    LET dv == _as_date(v)
        da == _as_date(lo)
        db == _as_date(hi)
        av == _parse_number(v)
        al == _parse_number(lo)
        ah == _parse_number(hi)
    IN  IF dv.ok /\ da.ok /\ db.ok THEN DateLe(da, dv) /\ DateLe(dv, db)
        ELSE av.ok /\ al.ok /\ ah.ok /\ RatLe(al, av) /\ RatLe(av, ah)


\* {_nkey(k): v for k, v in mapping.items()}
RECURSIVE NormMapFrom(_, _, _)
NormMapFrom(es, i, acc) ==
    IF i > Len(es) THEN acc
    ELSE NormMapFrom(es, i + 1, DictSet(acc, _nkey(PyStr(es[i].k)), es[i].v))

\* `new_k not in obj` raises TypeError for an unhashable new_k
Unhashable(x) == IsList(x) \/ IsDict(x)

RECURSIVE RenameLevel(_, _, _, _)
\* the loop `for k in list(obj.keys())` from position i of the snapshot keys
RenameLevel(obj, keys, i, norm_map) ==
    IF i > Len(keys) THEN [val |-> obj, raised |-> FALSE]
    ELSE LET k  == keys[i].k
             nk == _nkey(PyStr(k))
         IN  IF ~HasKey(norm_map, nk) THEN RenameLevel(obj, keys, i + 1, norm_map)
             ELSE LET new_k == DictGet(norm_map, nk) IN
                  IF Unhashable(new_k) THEN [val |-> obj, raised |-> TRUE]
                  ELSE IF ~HasKey(obj, Str(new_k))
                  THEN RenameLevel(DictSet(DictPop(obj, k), Str(new_k), DictGet(obj, k)),
                                   keys, i + 1, norm_map)
                  \* the destination exists: the source key is dropped
                  ELSE RenameLevel(DictPop(obj, k), keys, i + 1, norm_map)

RECURSIVE _rename_keys_recursive(_, _)
RECURSIVE RenameChildren(_, _, _)
\* the loops over obj.values() (a dict) and over obj[i] (a list)
RenameChildren(obj, j, mapping) ==
    IF j > Len(obj.xs) THEN [val |-> obj, raised |-> FALSE]
    ELSE LET r == _rename_keys_recursive(obj.xs[j].v, mapping)
             o == [obj EXCEPT !.xs[j] = Entry(obj.xs[j].k, r.val)]
         IN  IF r.raised THEN [val |-> o, raised |-> TRUE]
             ELSE RenameChildren(o, j + 1, mapping)

\* [val |-> obj after the renaming, raised |-> an exception left it]
_rename_keys_recursive(obj, mapping) ==
    IF ~IsDict(mapping) \/ ~Truthy(mapping) THEN [val |-> obj, raised |-> FALSE]
    ELSE IF IsDict(obj)
    THEN LET r == RenameLevel(obj, obj.xs, 1, NormMapFrom(mapping.xs, 1, PyDict(<<>>)))
         IN  IF r.raised THEN r ELSE RenameChildren(r.val, 1, mapping)
    ELSE IF IsList(obj) THEN RenameChildren(obj, 1, mapping)
    ELSE [val |-> obj, raised |-> FALSE]

(***************************************************************************)
(* nlp/apply_plan.py: execute_plan, one operator per branch of the step    *)
(* loop.  A step is a Python dict; a branch gives                          *)
(*   [doc |-> the document after the step, keep |-> FALSE for the          *)
(*    `keep = False; break` of a filter, raised |-> an exception left      *)
(*    execute_plan].                                                       *)
(***************************************************************************)
StepResult(d, k, r) == [doc |-> d, keep |-> k, raised |-> r]

\* step.get(k, default)
Get(step, k, default) == IF HasKey(step, k) THEN DictGet(step, k) ELSE default
\* x or default
Or(x, default) == IF Truthy(x) THEN x ELSE default

IsStarList(cur, path) == IsList(cur) /\ (\E i \in DOMAIN path : path[i] = "*")
Leaf(path) == path[Len(path)]

\* `for c in cols`: the values iterated; an int or None is not iterable
IterRaises(cols) == ~(IsList(cols) \/ IsDict(cols) \/ IsStr(cols))
IterValues(cols) ==
    IF IsList(cols) THEN [i \in DOMAIN cols.xs |-> cols.xs[i].v]
    ELSE IF IsDict(cols) THEN [i \in DOMAIN cols.xs |-> PyStr(cols.xs[i].k)]
    ELSE [i \in 1..Len(cols.s) |-> PyStr(Ch(cols.s, i))]

\* the items list `cur` of the document with every dict item rewritten
SetItems(doc, path, newItems) == DictSet(doc, path[1], newItems)

Branch_rename_columns(doc, step) ==
    LET mapping == Or(Get(step, "map", PyDict(<<>>)), PyDict(<<>>))
        r == _rename_keys_recursive(doc, mapping)
    IN  StepResult(r.val, TRUE, r.raised)

Branch_format_date(doc, step) ==
    LET p == _get_path_for_column(DictGet(step, "column"))
        input_fmt  == Or(DictGet(step, "input_fmt"), PyStr("infer"))
        output_fmt == Or(DictGet(step, "output_fmt"), PyStr("%Y-%m-%d"))
        cur  == _get_value_by_path(doc, p)
        newv == _format_date(cur, input_fmt, output_fmt)
    IN  IF p = <<>> THEN StepResult(doc, TRUE, FALSE)
        ELSE IF IsStarList(cur, p) THEN StepResult(doc, TRUE, FALSE)
        ELSE IF ~IsNone(newv) THEN StepResult(_set_value_by_path(doc, p, newv), TRUE, FALSE)
        ELSE StepResult(doc, TRUE, FALSE)

Tagged(lang, x) == PyStr("[" \o Str(lang) \o "]" \o Str(x))

RECURSIVE TranslateCols(_, _, _, _)
TranslateCols(doc, cols, i, lang) ==
    IF i > Len(cols) THEN doc
    ELSE LET p   == _get_path_for_column(cols[i])
             cur == _get_value_by_path(doc, p)
         IN  IF p = <<>> THEN TranslateCols(doc, cols, i + 1, lang)
             ELSE IF IsStarList(cur, p)
             THEN TranslateCols(
                    SetItems(doc, p, [cur EXCEPT !.xs = [j \in DOMAIN cur.xs |->
                       LET item == cur.xs[j].v IN
                       IF IsDict(item) /\ HasKey(item, Leaf(p)) /\ Truthy(DictGet(item, Leaf(p)))
                       THEN Entry("", DictSet(item, Leaf(p), Tagged(lang, DictGet(item, Leaf(p)))))
                       ELSE cur.xs[j]]]),
                    cols, i + 1, lang)
             ELSE IF Truthy(cur)
             THEN TranslateCols(_set_value_by_path(doc, p, Tagged(lang, cur)), cols, i + 1, lang)
             ELSE TranslateCols(doc, cols, i + 1, lang)

Branch_translate_values(doc, step) ==
    LET cols == Or(Get(step, "columns", PyList(<<>>)), PyList(<<>>))
        lang == Get(step, "target_lang", PyStr("EN"))
    IN  IF IterRaises(cols) THEN StepResult(doc, TRUE, TRUE)
        ELSE StepResult(TranslateCols(doc, IterValues(cols), 1, lang), TRUE, FALSE)

RECURSIVE ConvertCols(_, _, _, _)
\* [val |-> doc, raised]: _convert_units_scalar raises at the first value it
\* is called on when the target is no str
ConvertCols(doc, cols, i, target) ==
    IF i > Len(cols) THEN [val |-> doc, raised |-> FALSE]
    ELSE LET p   == _get_path_for_column(cols[i])
             cur == _get_value_by_path(doc, p)
         IN  IF p = <<>> THEN ConvertCols(doc, cols, i + 1, target)
             ELSE IF IsStarList(cur, p)
             THEN IF _convert_units_scalar_raises(target)
                     /\ \E j \in DOMAIN cur.xs :
                           /\ IsDict(cur.xs[j].v) /\ HasKey(cur.xs[j].v, Leaf(p))
                           /\ Truthy(DictGet(cur.xs[j].v, Leaf(p)))
                  THEN [val |-> doc, raised |-> TRUE]
                  ELSE ConvertCols(
                         SetItems(doc, p, [cur EXCEPT !.xs = [j \in DOMAIN cur.xs |->
                            LET item == cur.xs[j].v IN
                            IF IsDict(item) /\ HasKey(item, Leaf(p)) /\ Truthy(DictGet(item, Leaf(p)))
                               /\ ~IsNone(_convert_units_scalar(DictGet(item, Leaf(p)), target))
                            THEN Entry("", DictSet(item, Leaf(p),
                                      _convert_units_scalar(DictGet(item, Leaf(p)), target)))
                            ELSE cur.xs[j]]]),
                         cols, i + 1, target)
             ELSE IF IsNone(cur) THEN ConvertCols(doc, cols, i + 1, target)
             ELSE IF _convert_units_scalar_raises(target) THEN [val |-> doc, raised |-> TRUE]
             ELSE IF ~IsNone(_convert_units_scalar(cur, target))
             THEN ConvertCols(_set_value_by_path(doc, p, _convert_units_scalar(cur, target)),
                              cols, i + 1, target)
             ELSE ConvertCols(doc, cols, i + 1, target)

Branch_convert_units(doc, step) ==
    LET cols   == Or(Get(step, "columns", PyList(<<>>)), PyList(<<>>))
        target == DictGet(step, "target_unit")
    IN  IF IterRaises(cols) THEN StepResult(doc, TRUE, TRUE)
        ELSE LET r == ConvertCols(doc, IterValues(cols), 1, target)
             IN  StepResult(r.val, TRUE, r.raised)


LowerEq(a, b) == Lower(_norm(a)) = Lower(_norm(b))

Branch_filter_equals(doc, step) ==
    LET val == DictGet(step, "value")
        p   == _get_path_for_column(DictGet(step, "column"))
        cur == _get_value_by_path(doc, p)
    IN  IF p = <<>> THEN StepResult(doc, FALSE, FALSE)
        ELSE IF IsStarList(cur, p)
        THEN StepResult(doc,
               \E j \in DOMAIN cur.xs :
                  LET it == cur.xs[j].v IN
                  IsDict(it) /\ _norm(DictGet(it, Leaf(p))) # "" /\ LowerEq(DictGet(it, Leaf(p)), val),
               FALSE)
        ELSE StepResult(doc, LowerEq(cur, val), FALSE)

Branch_filter_contains(doc, step) ==
    LET val == DictGet(step, "value")
        p   == _get_path_for_column(DictGet(step, "column"))
        cur == _get_value_by_path(doc, p)
    IN  IF p = <<>> THEN StepResult(doc, FALSE, FALSE)
        ELSE IF IsStarList(cur, p)
        THEN StepResult(doc,
               \E j \in DOMAIN cur.xs :
                  LET it == cur.xs[j].v IN
                  IsDict(it) /\ Contains(Lower(_norm(val)), Lower(_norm(DictGet(it, Leaf(p))))),
               FALSE)
        ELSE StepResult(doc, Contains(Lower(_norm(val)), Lower(_norm(cur))), FALSE)

\* the comparison operator is read from the key "op", the key of the op name
Branch_filter_compare(doc, step) ==
    LET cmpop == DictGet(step, "op")
        val   == DictGet(step, "value")
        p     == _get_path_for_column(DictGet(step, "column"))
        cur   == _get_value_by_path(doc, p)
        a     == _parse_number(cur)
        b     == _parse_number(val)
    IN  IF p = <<>> THEN StepResult(doc, FALSE, FALSE)
        ELSE IF ~a.ok \/ ~b.ok THEN StepResult(doc, FALSE, FALSE)
        ELSE StepResult(doc, _filter_compare_ok(a, cmpop, b), FALSE)

Branch_filter_between(doc, step) ==
    LET rng == Get(step, "range", PyList(<<>>))
        p   == _get_path_for_column(Or(DictGet(step, "column"), PyStr("fecha")))
        cur == _get_value_by_path(doc, p)
    IN  IF p = <<>> \/ ~IsList(rng) \/ Len(rng.xs) # 2 THEN StepResult(doc, FALSE, FALSE)
        ELSE IF IsStarList(cur, p)
        THEN StepResult(doc,
               \E j \in DOMAIN cur.xs :
                  LET it == cur.xs[j].v IN
                  IsDict(it) /\ BetweenOk(DictGet(it, Leaf(p)), rng.xs[1].v, rng.xs[2].v),
               FALSE)
        ELSE StepResult(doc, BetweenOk(cur, rng.xs[1].v, rng.xs[2].v), FALSE)

\* defaults = {"ARS":0.005,"USD":1.0,"EUR":1.1}
CurrencyDefaults == ("ARS" :> Rat(5, 1000)) @@ ("USD" :> Rat(1, 1)) @@ ("EUR" :> Rat(11, 10))
DefaultFactor(cur_curr) ==
    IF cur_curr \in DOMAIN CurrencyDefaults THEN CurrencyDefaults[cur_curr] ELSE Rat(1, 1)

\* float(x): NoNum for the TypeError or ValueError
FloatOf(x) ==
    CASE x.t = "int"   -> ParseFloat(x.s)
      [] x.t = "float" -> ParseFloat(x.s)
      [] x.t = "str"   -> ParseFloat(Strip(x.s))
      [] OTHER -> NoNum

RECURSIVE CurrencyCols(_, _, _, _)
CurrencyCols(doc, cols, i, factor) ==
    IF i > Len(cols) THEN doc
    ELSE LET p   == _get_path_for_column(cols[i])
             cur == _get_value_by_path(doc, p)
         IN  IF p = <<>> THEN CurrencyCols(doc, cols, i + 1, factor)
             ELSE IF IsStarList(cur, p)
             THEN CurrencyCols(
                    SetItems(doc, p, [cur EXCEPT !.xs = [j \in DOMAIN cur.xs |->
                       LET it == cur.xs[j].v IN
                       IF IsDict(it) /\ _parse_number(DictGet(it, Leaf(p))).ok
                       THEN Entry("", DictSet(it, Leaf(p),
                              PyStr(Format2f(RatMul(_parse_number(DictGet(it, Leaf(p))), factor)))))
                       ELSE cur.xs[j]]]),
                    cols, i + 1, factor)
             ELSE IF ~_parse_number(cur).ok THEN CurrencyCols(doc, cols, i + 1, factor)
             ELSE CurrencyCols(
                    _set_value_by_path(doc, p, PyStr(Format2f(RatMul(_parse_number(cur), factor)))),
                    cols, i + 1, factor)

\* a branch that writes the target code as the step spells it
Branch_currency_to_as_written(doc, step) ==
    LET cols       == Or(Get(step, "columns", PyList(<<>>)), PyList(<<>>))
        target     == Or(DictGet(step, "target"), PyStr("USD"))
        rate       == Get(step, "rate", PyFloat("1.0"))
        rate_table == Or(DictGet(step, "rate_table"), PyDict(<<>>))
        cur_curr   == Or(_get_value_by_path(doc, <<"totals", "currency">>), PyStr("ARS"))
        code       == Upper(cur_curr.s)
        entry      == IF HasKey(rate_table, code) THEN FloatOf(DictGet(rate_table, code))
                      ELSE DefaultFactor(code)
        factor     == IF rate.t \in {"int", "float"} THEN FloatOf(rate)
                      ELSE IF rate = PyStr("table") THEN entry
                      ELSE DefaultFactor(code)
    IN  IF AttrRaises(target) \/ AttrRaises(cur_curr) THEN StepResult(doc, TRUE, TRUE)
        ELSE IF rate = PyStr("table") /\ (~IsDict(rate_table) \/ ~entry.ok)
        THEN StepResult(doc, TRUE, TRUE)
        ELSE IF IterRaises(cols) THEN StepResult(doc, TRUE, TRUE)
        ELSE StepResult(
               _set_value_by_path(CurrencyCols(doc, IterValues(cols), 1, factor),
                                  <<"totals", "currency">>, target),
               TRUE, FALSE)

Branch_currency_to(doc, step) ==
    LET cols       == Or(Get(step, "columns", PyList(<<>>)), PyList(<<>>))
        target     == Or(DictGet(step, "target"), PyStr("USD"))
        rate       == Get(step, "rate", PyFloat("1.0"))
        rate_table == Or(DictGet(step, "rate_table"), PyDict(<<>>))
        cur_curr   == Or(_get_value_by_path(doc, <<"totals", "currency">>), PyStr("ARS"))
        code       == Upper(cur_curr.s)
        entry      == IF HasKey(rate_table, code) THEN FloatOf(DictGet(rate_table, code))
                      ELSE DefaultFactor(code)
        factor     == IF rate.t \in {"int", "float"} THEN FloatOf(rate)
                      ELSE IF rate = PyStr("table") THEN entry
                      ELSE DefaultFactor(code)
    IN  IF AttrRaises(target) \/ AttrRaises(cur_curr) THEN StepResult(doc, TRUE, TRUE)
        ELSE IF rate = PyStr("table") /\ (~IsDict(rate_table) \/ ~entry.ok)
        THEN StepResult(doc, TRUE, TRUE)
        ELSE IF IterRaises(cols) THEN StepResult(doc, TRUE, TRUE)
        ELSE StepResult(
               _set_value_by_path(CurrencyCols(doc, IterValues(cols), 1, factor),
                                  <<"totals", "currency">>, PyStr(Upper(target.s))),
               TRUE, FALSE)

\* export: `pass`
Branch_export(doc, step) == StepResult(doc, TRUE, FALSE)

\* an unknown op that drops the document
Branch_unknown_drops(doc, step) == StepResult(doc, FALSE, FALSE)

\* no branch matches the op: the step is ignored
Branch_unknown(doc, step) == StepResult(doc, TRUE, FALSE)

KnownOps == {"rename_columns", "format_date", "translate_values", "convert_units",
             "filter_equals", "filter_contains", "filter_compare", "filter_between",
             "currency_to", "export"}

\* op = (step or {}).get("op")
OpOf(step) == DictGet(Or(step, PyDict(<<>>)), "op")


(***************************************************************************)
(* execute_plan as a state machine: one action per branch of the loop.     *)
(***************************************************************************)
\* the bounds of the inputs
MaxPlan == 2
MaxDocs == 2

Doc_invoice ==
    PyDict(<<Entry("totals", PyDict(<<Entry("total", PyStr("150")), Entry("currency", PyStr("ars"))>>)),
             Entry("dates", PyDict(<<Entry("issue_date", PyStr("05/01/2024"))>>)),
             Entry("items", PyList(<<PyDict(<<Entry("Descripción", PyStr("Tornillo")),
                                              Entry("largo", PyStr("12 cm"))>>)>>))>>)
Doc_flat == PyDict(<<Entry("Fecha", PyStr("05/01/2024")), Entry("monto", PyStr("50"))>>)
\* a document with malformed fields: a number where the currency code is
\* expected, text where the amount is expected, a string where the items are
Doc_malformed ==
    PyDict(<<Entry("totals", PyDict(<<Entry("total", PyStr("n/d")), Entry("currency", PyInt(5))>>)),
             Entry("items", PyStr("sin items"))>>)

DocPool == {Doc_invoice, Doc_flat, Doc_malformed}

Step(op, params) == PyDict(<<Entry("op", PyStr(op))>> \o params)

StepPool ==
    { Step("rename_columns", <<Entry("map", PyDict(<<Entry("Fecha", PyStr("fecha")),
                                                     Entry("descripcion", PyStr("detalle"))>>))>>),
      \* a malformed map: the new name is a list
      Step("rename_columns", <<Entry("map", PyDict(<<Entry("monto", PyList(<<PyStr("x")>>))>>))>>),
      Step("format_date", <<Entry("column", PyStr("Fecha")), Entry("output_fmt", PyStr("%Y-%m-%d"))>>),
      Step("translate_values", <<Entry("columns", PyList(<<PyStr("largo"), PyStr("monto")>>)),
                                 Entry("target_lang", PyStr("EN"))>>),
      \* malformed: columns is a number
      Step("translate_values", <<Entry("columns", PyInt(5))>>),
      Step("convert_units", <<Entry("columns", PyList(<<PyStr("largo")>>)),
                              Entry("target_unit", PyStr("in"))>>),
      \* malformed: the target unit is a number
      Step("convert_units", <<Entry("columns", PyList(<<PyStr("largo")>>)),
                              Entry("target_unit", PyInt(5))>>),
      Step("filter_equals", <<Entry("column", PyStr("moneda")), Entry("value", PyStr("ARS"))>>),
      Step("filter_contains", <<Entry("column", PyStr("largo")), Entry("value", PyStr("CM"))>>),
      Step("filter_compare", <<Entry("column", PyStr("monto")), Entry("value", PyStr("100"))>>),
      Step("filter_between", <<Entry("column", PyStr("fecha")),
                               Entry("range", PyList(<<PyStr("2024-01-01"), PyStr("31/12/2024")>>))>>),
      Step("currency_to", <<Entry("columns", PyList(<<PyStr("monto")>>)), Entry("target", PyStr("usd")),
                            Entry("rate", PyStr("table")),
                            Entry("rate_table", PyDict(<<Entry("ARS", PyFloat("0.5"))>>))>>),
      Step("export", <<Entry("format", PyStr("csv"))>>),
      Step("bogus", <<>>),
      \* a comparison operator where the op name is expected
      Step(">", <<Entry("column", PyStr("monto")), Entry("value", PyStr("100"))>>),
      PyNone }

RECURSIVE SeqsUpTo(_, _)
\* the sequences over S of length at most n
SeqsUpTo(S, n) ==
    IF n = 0 THEN {<<>>}
    ELSE LET shorter == SeqsUpTo(S, n - 1)
         IN  shorter \cup {Append(q, x) : q \in shorter, x \in S}

PlanPool == SeqsUpTo(StepPool, MaxPlan)

\* what a caller passes: one document, a list of documents (a list may hold
\* values that are no dict), or something else
InputPool ==
    DocPool
    \cup {PyList(q) : q \in SeqsUpTo(DocPool, MaxDocs)}
    \cup {PyList(<<PyStr("x"), Doc_flat>>), PyStr("no es un documento")}

\* the state before a call of execute_plan; the compiler and the currency
\* converter are not running
Init ==
    /\ ureg = <<>> /\ uw = <<>>
    /\ raw_text = "" /\ intents = {} /\ slots = <<>> /\ spacy_plan = <<>> /\ report = <<>> /\ spc = "idle"
    /\ tags_or_list \in InputPool
    /\ plan \in PlanPool
    /\ docs = <<>>
    /\ di = 1
    /\ si = 1
    /\ keep = TRUE
    /\ out = <<>>
    /\ epc = "start"
    /\ applied = <<>>
    /\ text = PyNone /\ raw = PyNone /\ plan_llm = <<>> /\ plan_h = <<>>
    /\ final_plan = <<>> /\ meta = PyNone /\ cpc = "idle" /\ chat = "none"
    /\ names = <<>> /\ files = <<>> /\ now = 0 /\ calls = <<>> /\ remote = <<>>
    /\ reqlog = <<>>
    /\ odoc = PyNone /\ ostep = PyNone /\ opc = "idle" /\ oret = PyNone
    /\ env = <<>> /\ olog = <<>>

RECURSIVE OnlyDicts(_, _)
\* [d for d in tags_or_list if isinstance(d, dict)]
OnlyDicts(es, i) ==
    IF i > Len(es) THEN <<>>
    ELSE (IF IsDict(es[i].v) THEN <<es[i].v>> ELSE <<>>) \o OnlyDicts(es, i + 1)

\* lines 239-247: the batch; TypeError for anything but a dict or a list
Start ==
    /\ epc = "start"
    /\ IF IsDict(tags_or_list) THEN docs' = <<tags_or_list>> /\ epc' = "running"
       ELSE IF IsList(tags_or_list) THEN docs' = OnlyDicts(tags_or_list.xs, 1) /\ epc' = "running"
       ELSE docs' = docs /\ epc' = "raised"
    /\ UNCHANGED <<tags_or_list, plan, di, si, keep, out, applied>>
    /\ UNCHANGED <<compVars, rateVars, opsVars, unitVars, spacyVars>>

InLoop == epc = "running" /\ di <= Len(docs) /\ si <= Len(plan)

\* the step loop without the `break` of the filters
NextStepIndex_nobreak(res) == si + 1

\* the position of the step loop after a step: `break` leaves the loop
NextStepIndex(res) == IF res.keep THEN si + 1 ELSE Len(plan) + 1

\* the state after a branch gave res for the current step of the current doc
Advance(res) ==
    /\ docs' = [docs EXCEPT ![di] = res.doc]
    /\ applied' = Append(applied, [doc |-> di, step |-> si, op |-> Str(OpOf(plan[si])),
                                   dropped |-> ~res.keep, raised |-> res.raised])
    /\ IF res.raised
       THEN epc' = "raised" /\ UNCHANGED <<si, keep>>
       ELSE epc' = epc /\ keep' = res.keep /\ si' = NextStepIndex(res)
    /\ UNCHANGED <<tags_or_list, plan, di, out>>
    /\ UNCHANGED <<compVars, rateVars, opsVars, unitVars, spacyVars>>

StepIs(op) == InLoop /\ OpOf(plan[si]) = PyStr(op)

Do_rename_columns   == StepIs("rename_columns")   /\ Advance(Branch_rename_columns(docs[di], plan[si]))
Do_format_date      == StepIs("format_date")      /\ Advance(Branch_format_date(docs[di], plan[si]))
Do_translate_values == StepIs("translate_values") /\ Advance(Branch_translate_values(docs[di], plan[si]))
Do_convert_units    == StepIs("convert_units")    /\ Advance(Branch_convert_units(docs[di], plan[si]))
Do_filter_equals    == StepIs("filter_equals")    /\ Advance(Branch_filter_equals(docs[di], plan[si]))
Do_filter_contains  == StepIs("filter_contains")  /\ Advance(Branch_filter_contains(docs[di], plan[si]))
Do_filter_compare   == StepIs("filter_compare")   /\ Advance(Branch_filter_compare(docs[di], plan[si]))
Do_filter_between   == StepIs("filter_between")   /\ Advance(Branch_filter_between(docs[di], plan[si]))
Do_currency_to      == StepIs("currency_to")      /\ Advance(Branch_currency_to(docs[di], plan[si]))
Do_export           == StepIs("export")           /\ Advance(Branch_export(docs[di], plan[si]))
Do_unknown ==
    /\ InLoop
    /\ ~(IsStr(OpOf(plan[si])) /\ OpOf(plan[si]).s \in KnownOps)
    /\ Advance(Branch_unknown(docs[di], plan[si]))

\* lines 448-449: `if keep: out.append(doc)`, then the next document
FinishDoc ==
    /\ epc = "running" /\ di <= Len(docs) /\ si > Len(plan)
    /\ out' = IF keep THEN Append(out, di) ELSE out
    /\ di' = di + 1
    /\ si' = 1
    /\ keep' = TRUE
    /\ UNCHANGED <<tags_or_list, plan, docs, epc, applied>>
    /\ UNCHANGED <<compVars, rateVars, opsVars, unitVars, spacyVars>>

\* line 451: return out
Return ==
    /\ epc = "running" /\ di > Len(docs)
    /\ epc' = "done"
    /\ UNCHANGED <<tags_or_list, plan, docs, di, si, keep, out, applied>>
    /\ UNCHANGED <<compVars, rateVars, opsVars, unitVars, spacyVars>>

ExecNext ==
    \/ Start
    \/ Do_rename_columns \/ Do_format_date \/ Do_translate_values \/ Do_convert_units
    \/ Do_filter_equals \/ Do_filter_contains \/ Do_filter_compare \/ Do_filter_between
    \/ Do_currency_to \/ Do_export \/ Do_unknown
    \/ FinishDoc
    \/ Return

Next == ExecNext
Spec == Init /\ [][Next]_vars

\* the list execute_plan returned
Returned == [i \in 1..Len(out) |-> docs[out[i]]]

(***************************************************************************)
(* Properties of execute_plan                                              *)
(***************************************************************************)
\* the entries of the history about document d
EntriesOf(d) == {i \in 1..Len(applied) : applied[i].doc = d}

\* C1: each document goes through the steps in plan order, starting at the
\* first; a step that drops the document is the last one applied to it and
\* the document is not in the output; a returned call has applied to each
\* document every step up to the end of the plan or up to the dropping step,
\* and returns exactly the documents no step dropped.
C1_PlanOrderAndDrop ==
    /\ \A i \in 1..Len(applied) :
          /\ (i = 1 \/ applied[i - 1].doc # applied[i].doc) => applied[i].step = 1
          /\ (i > 1 /\ applied[i - 1].doc = applied[i].doc)
                => (applied[i].step = applied[i - 1].step + 1 /\ ~applied[i - 1].dropped)
          /\ i > 1 => applied[i - 1].doc <= applied[i].doc
          /\ applied[i].dropped => \A j \in 1..Len(out) : out[j] # applied[i].doc
    /\ epc = "done" =>
          \A d \in 1..Len(docs) :
             /\ (\E j \in 1..Len(out) : out[j] = d) <=> (\A i \in EntriesOf(d) : ~applied[i].dropped)
             /\ plan # <<>> => \E i \in EntriesOf(d) :
                                  applied[i].step = Len(plan) \/ applied[i].dropped

\* a batch of two under a plan of two steps: the first document dropped by
\* the first step, the second one kept through both
C1_Witness ==
    /\ epc = "done" /\ Len(plan) = 2 /\ Len(docs) = 2 /\ out = <<2>>
    /\ Len(applied) = 3 /\ applied[1].dropped /\ applied[3].step = 2

\* C2: a step whose op is none of the ten known ops changes nothing of the
\* document, keeps it, and does not raise: the loop goes on to the next step.
C2_UnknownOpNoEffect ==
    [][(InLoop /\ ~(IsStr(OpOf(plan[si])) /\ OpOf(plan[si]).s \in KnownOps))
          => (docs' = docs /\ keep' = TRUE /\ epc' = "running" /\ si' = si + 1)]_vars

\* a returned call that ran an unknown op and kept that document
C2_Witness ==
    /\ epc = "done"
    /\ \E i \in 1..Len(applied) :
          /\ applied[i].op = "bogus"
          /\ \E j \in 1..Len(out) : out[j] = applied[i].doc

\* C3: no step raises, whatever the fields of the document and the
\* parameters of the step hold.
C3_NeverRaises == \A i \in 1..Len(applied) : ~applied[i].raised

(***************************************************************************)
(* The instruction compiler: nlp/instruction_qwen.py                       *)
(***************************************************************************)
RECURSIVE FindFrom(_, _, _)
\* hay.find(needle, i - 1) + 1: the first position >= i where needle
\* starts, 0 when there is none
FindFrom(needle, hay, i) ==
    IF i + Len(needle) - 1 > Len(hay) THEN 0
    ELSE IF SubSeq(hay, i, i + Len(needle) - 1) = needle THEN i
    ELSE FindFrom(needle, hay, i + 1)

RECURSIVE RIndexFrom(_, _, _)
\* s.rfind(c) + 1 for a one-character c, looking from position i down
RIndexFrom(c, s, i) ==
    IF i < 1 THEN 0
    ELSE IF Ch(s, i) = c THEN i ELSE RIndexFrom(c, s, i - 1)

RECURSIVE ReplaceFrom(_, _, _, _)
\* s.replace(a, b) for a non-empty a
ReplaceFrom(s, a, b, i) ==
    IF i > Len(s) THEN ""
    ELSE IF i + Len(a) - 1 <= Len(s) /\ SubSeq(s, i, i + Len(a) - 1) = a
    THEN b \o ReplaceFrom(s, a, b, i + Len(a))
    ELSE Ch(s, i) \o ReplaceFrom(s, a, b, i + 1)

\* s[i-1:j]: the characters at positions i..j that exist
Sub(s, i, j) == IF j > Len(s) THEN SubSeq(s, i, Len(s)) ELSE SubSeq(s, i, j)

StartsWith(s, p) == Len(s) >= Len(p) /\ SubSeq(s, 1, Len(p)) = p
EndsWith(s, p)   == Len(s) >= Len(p) /\ SubSeq(s, Len(s) - Len(p) + 1, Len(s)) = p

\* --- json.loads, for texts without escapes, exponents or fractions ---
JFail == [ok |-> FALSE, v |-> PyNone, i |-> 0]
JOk(x, i) == [ok |-> TRUE, v |-> x, i |-> i]

RECURSIVE JNumEnd(_, _)
JNumEnd(s, i) == IF IsDigit(Ch(s, i)) THEN JNumEnd(s, i + 1) ELSE i

\* a string: from the quote at i to the next quote
JString(s, i) ==
    IF IndexFrom("\"", s, i + 1) = 0 THEN JFail
    ELSE JOk(PyStr(SubSeq(s, i + 1, IndexFrom("\"", s, i + 1) - 1)), IndexFrom("\"", s, i + 1) + 1)

\* an integer: -?(0|[1-9][0-9]*)
JNumber(s, i, from) ==
    IF JNumEnd(s, from) = from THEN JFail
    ELSE IF Ch(s, from) = "0" THEN JOk(PyInt(0), from + 1)
    ELSE JOk([t |-> "int", s |-> SubSeq(s, i, JNumEnd(s, from) - 1), xs |-> <<>>], JNumEnd(s, from))

RECURSIVE JValue(_, _)
RECURSIVE JMembers(_, _, _)
RECURSIVE JMemberValue(_, _, _, _)
RECURSIVE JAfterMember(_, _, _)
RECURSIVE JElements(_, _, _)
RECURSIVE JAfterElement(_, _, _)

\* the value that starts at position i (whitespace skipped by the caller)
JValue(s, i) ==
    IF Ch(s, i) = "{"
    THEN (IF Ch(s, LStripAt(s, i + 1)) = "}" THEN JOk(PyDict(<<>>), LStripAt(s, i + 1) + 1)
          ELSE JMembers(s, LStripAt(s, i + 1), PyDict(<<>>)))
    ELSE IF Ch(s, i) = "["
    THEN (IF Ch(s, LStripAt(s, i + 1)) = "]" THEN JOk(PyList(<<>>), LStripAt(s, i + 1) + 1)
          ELSE JElements(s, LStripAt(s, i + 1), <<>>))
    ELSE IF Ch(s, i) = "\"" THEN JString(s, i)
    ELSE IF Ch(s, i) = "-" THEN JNumber(s, i, i + 1)
    ELSE IF IsDigit(Ch(s, i)) THEN JNumber(s, i, i)
    ELSE IF Sub(s, i, i + 3) = "null" THEN JOk(PyNone, i + 4)
    ELSE IF Sub(s, i, i + 3) = "true" THEN JOk(PyBool(TRUE), i + 4)
    ELSE IF Sub(s, i, i + 4) = "false" THEN JOk(PyBool(FALSE), i + 5)
    ELSE JFail

\* "key" : value, at position i; acc is the dict read so far
JMembers(s, i, acc) ==
    IF Ch(s, i) # "\"" \/ ~JString(s, i).ok THEN JFail
    ELSE IF Ch(s, LStripAt(s, JString(s, i).i)) # ":" THEN JFail
    ELSE JMemberValue(s, JString(s, i).v.s,
                      JValue(s, LStripAt(s, LStripAt(s, JString(s, i).i) + 1)), acc)

JMemberValue(s, k, r, acc) ==
    IF ~r.ok THEN JFail ELSE JAfterMember(s, LStripAt(s, r.i), DictSet(acc, k, r.v))

JAfterMember(s, i, acc) ==
    IF Ch(s, i) = "}" THEN JOk(acc, i + 1)
    ELSE IF Ch(s, i) = "," THEN JMembers(s, LStripAt(s, i + 1), acc)
    ELSE JFail

JElements(s, i, acc) ==
    IF ~JValue(s, i).ok THEN JFail
    ELSE JAfterElement(s, LStripAt(s, JValue(s, i).i), Append(acc, JValue(s, i).v))

JAfterElement(s, i, acc) ==
    IF Ch(s, i) = "]" THEN JOk(PyList(acc), i + 1)
    ELSE IF Ch(s, i) = "," THEN JElements(s, LStripAt(s, i + 1), acc)
    ELSE JFail

\* json.loads(s): ok = FALSE stands for JSONDecodeError
JsonLoads(s) ==
    IF JValue(s, LStripAt(s, 1)).ok
       /\ LStripAt(s, JValue(s, LStripAt(s, 1)).i) > Len(s)
    THEN JValue(s, LStripAt(s, 1))
    ELSE JFail

\* --- _extract_json_from_any ---
\* three backticks; a TLA+ string cannot hold a backtick, and the strings of
\* the model write the fence of a code block as three tildes
Fence == "~~~"

\* 1) re.search(r"<fence>(?:json)?\s*([\s\S]*?)<fence>", s, flags=re.I): the
\* start of the captured text for the fence at p
FenceStart(s, p) ==
    LStripAt(s, IF Lower(Sub(s, p + 3, p + 6)) = "json" THEN p + 7 ELSE p + 3)

Unfence(s, p) ==
    IF p = 0 \/ FindFrom(Fence, s, FenceStart(s, p)) = 0 THEN s
    ELSE Strip(SubSeq(s, FenceStart(s, p), FindFrom(Fence, s, FenceStart(s, p)) - 1))

\* 2) the text from the first "{" to the last "}"
FirstBlock(s) ==
    IF StartsWith(s, "{") /\ EndsWith(s, "}") THEN s
    ELSE IF IndexOf("{", s) # 0 /\ RIndexFrom("}", s, Len(s)) > IndexOf("{", s)
    THEN SubSeq(s, IndexOf("{", s), RIndexFrom("}", s, Len(s)))
    ELSE s

\* 3) single quotes to double quotes when there is no double quote
RepairQuotes(s) ==
    IF InStr("'", s) /\ ~InStr("\"", s) THEN ReplaceChar(s, "'", "\"") ELSE s

\* 4) line ends
CleanBreaks(s) == Strip(ReplaceFrom(ReplaceFrom(s, "\r\n", "\n", 1), "\r", "\n", 1))

\* [ok, v]: ok = FALSE stands for the ValueError, the AttributeError of
\* raw.strip() on a reply that is no str, or the JSONDecodeError
_extract_json_from_any(r) ==
    IF ~Truthy(r) \/ ~IsStr(r) THEN JFail
    ELSE JsonLoads(CleanBreaks(RepairQuotes(FirstBlock(Unfence(Strip(r.s), FindFrom(Fence, Strip(r.s), 1))))))

\* --- interpret_with_qwen: the steps kept from the reply ---
safe_ops ==
    {"rename_columns", "format_date", "translate_values", "convert_units", "filter_equals",
     "filter_contains", "filter_compare", "filter_between", "currency_to", "export",
     "normalize_text", "cleanup_text_llm"}

\* s.get("op") in safe_ops raises TypeError for an op that is a list or a dict
OpUnhashable(x) == IsDict(x) /\ (IsList(DictGet(x, "op")) \/ IsDict(DictGet(x, "op")))

RECURSIVE KeptSteps(_, _)
\* [s for s in plan if isinstance(s, dict) and s.get("op") in safe_ops]
KeptSteps(es, i) ==
    IF i > Len(es) THEN <<>>
    ELSE (IF IsDict(es[i].v) /\ IsStr(DictGet(es[i].v, "op")) /\ DictGet(es[i].v, "op").s \in safe_ops
          THEN <<es[i].v>> ELSE <<>>) \o KeptSteps(es, i + 1)

\* the comprehension over parsed.get("plan", []); iterating a dict gives its
\* keys and a str its characters, none of them a dict; anything else but a list
\* raises TypeError, and every exception leaves plan_llm = []
StepsOfPlan(p) ==
    IF ~IsList(p) THEN <<>>
    ELSE IF \E i \in DOMAIN p.xs : OpUnhashable(p.xs[i].v) THEN <<>>
    ELSE KeptSteps(p.xs, 1)

\* lines 212-221
StepsOfParsed(parsed) ==
    IF ~parsed.ok \/ ~IsDict(parsed.v) THEN <<>>
    ELSE StepsOfPlan(IF HasKey(parsed.v, "plan") THEN DictGet(parsed.v, "plan") ELSE PyList(<<>>))

StepsOfReply(r) == StepsOfParsed(_extract_json_from_any(r))

\* --- the heuristics ---
\* \w
IsWordChar(c) == c # "" /\ InStr(c, LowerChars \o UpperChars \o DigitChars \o "_")

RECURSIVE FindWordFrom(_, _, _, _)
\* re.search(r"\bkey" or r"\bkey\b", t) for a key of letters: the first
\* position >= i, 0 when there is none
FindWordFrom(key, t, i, closed) ==
    IF FindFrom(key, t, i) = 0 THEN 0
    ELSE IF ~IsWordChar(Ch(t, FindFrom(key, t, i) - 1))
            /\ (closed => ~IsWordChar(Ch(t, FindFrom(key, t, i) + Len(key))))
    THEN FindFrom(key, t, i)
    ELSE FindWordFrom(key, t, FindFrom(key, t, i) + 1, closed)

_LANG_MAP ==
    << <<"aleman", "DE">>, <<"alemán", "DE">>, <<"alemana", "DE">>, <<"german", "DE">>,
       <<"deutsch", "DE">>, <<"ingles", "EN">>, <<"inglés", "EN">>, <<"english", "EN">>,
       <<"espanol", "ES">>, <<"español", "ES">>, <<"spanish", "ES">>, <<"italiano", "IT">>,
       <<"italian", "IT">>, <<"portugues", "PT">>, <<"portugués", "PT">>,
       <<"portuguese", "PT">>, <<"frances", "FR">>, <<"francés", "FR">>, <<"french", "FR">> >>

RECURSIVE InferLangFrom(_, _)
InferLangFrom(t, i) ==
    IF i > Len(_LANG_MAP) THEN "EN"
    ELSE IF FindWordFrom(_LANG_MAP[i][1], t, 1, TRUE) # 0 THEN _LANG_MAP[i][2]
    ELSE InferLangFrom(t, i + 1)

_infer_target_lang_from_text(txt) == InferLangFrom(Lower(txt), 1)

RECURSIVE JoinSplitFrom(_, _, _)
\* " ".join(s.split())
JoinSplitFrom(s, i, started) ==
    IF LStripAt(s, i) > Len(s) THEN ""
    ELSE IF IsSpace(Ch(s, i))
    THEN (IF started THEN " " ELSE "") \o Ch(s, LStripAt(s, i))
         \o JoinSplitFrom(s, LStripAt(s, i) + 1, TRUE)
    ELSE Ch(s, i) \o JoinSplitFrom(s, i + 1, TRUE)

\* --- _find_convert_target_and_custom ---
\* [a-z0-9_./áéíóúñ\-] (the degree and micro signs of the source's class are
\* outside the character set of the model's strings)
TargetChars == "abcdefghijklmnopqrstuvwxyz0123456789_./áéíóúñ-"

\* (?:a|en)\s+([...]+) at i: the position where the captured target starts,
\* 0 when there is no match; t holds single spaces only
TargetAfterPrep(t, i) ==
    IF Ch(t, i) = "a" /\ Ch(t, i + 1) = " " /\ InStr(Ch(t, i + 2), TargetChars) THEN i + 2
    ELSE IF Sub(t, i, i + 1) = "en" /\ Ch(t, i + 2) = " " /\ InStr(Ch(t, i + 3), TargetChars)
    THEN i + 3
    ELSE 0

\* \s*, greedy
TargetAfterUnits(t, i) ==
    IF Ch(t, i) = " " /\ TargetAfterPrep(t, i + 1) # 0 THEN TargetAfterPrep(t, i + 1)
    ELSE TargetAfterPrep(t, i)

\* (?:unidades|unidad|medidas)?, the alternatives in order and then none
TargetAfterLas(t, i) ==
    IF Sub(t, i, i + 7) = "unidades" /\ TargetAfterUnits(t, i + 8) # 0
    THEN TargetAfterUnits(t, i + 8)
    ELSE IF Sub(t, i, i + 5) = "unidad" /\ TargetAfterUnits(t, i + 6) # 0
    THEN TargetAfterUnits(t, i + 6)
    ELSE IF Sub(t, i, i + 6) = "medidas" /\ TargetAfterUnits(t, i + 7) # 0
    THEN TargetAfterUnits(t, i + 7)
    ELSE TargetAfterUnits(t, i)

\* \s+(?:las\s+)? after the verb that ends before i
TargetAfterVerb(t, i) ==
    IF Ch(t, i) # " " THEN 0
    ELSE IF Sub(t, i + 1, i + 4) = "las " /\ TargetAfterLas(t, i + 5) # 0
    THEN TargetAfterLas(t, i + 5)
    ELSE TargetAfterLas(t, i + 1)

\* (?:expres[aeá]|expresá|convierte|convertí|convertir) at p: the position
\* after the verb, 0 when none starts at p (no two of them match at one p
\* with different ends)
VerbEnd(t, p) ==
    IF Sub(t, p, p + 5) = "expres" /\ Ch(t, p + 6) \in {"a", "e", "á"} THEN p + 7
    ELSE IF Sub(t, p, p + 8) \in {"convierte", "convertir"} THEN p + 9
    ELSE IF Sub(t, p, p + 7) = "convertí" THEN p + 8
    ELSE 0

RECURSIVE TargetSearch(_, _)
\* re.search(m_target pattern, t): the start of group 1 in the leftmost match
TargetSearch(t, p) ==
    IF p > Len(t) THEN 0
    ELSE IF VerbEnd(t, p) # 0 /\ TargetAfterVerb(t, VerbEnd(t, p)) # 0
    THEN TargetAfterVerb(t, VerbEnd(t, p))
    ELSE TargetSearch(t, p + 1)

TargetOf(t, r) == IF r = 0 THEN "" ELSE SubSeq(t, r, SpanEnd(t, r, TargetChars) - 1)

\* the target of _find_convert_target_and_custom, "" for None. pat_a, pat_b
\* and pat_c each need a digit (\d+): for an instruction without digits, as
\* the instructions of InstructionPool are, none of them matches, found_noun
\* and conversion_value are None and the target is the one of m_target
_find_convert_target(txt) ==
    TargetOf(JoinSplitFrom(Lower(txt), 1, FALSE), TargetSearch(JoinSplitFrom(Lower(txt), 1, FALSE), 1))

\* lines 173-190
_heuristic_plan(txt) ==
    (IF FindWordFrom("traduc", Lower(txt), 1, FALSE) # 0 \/ FindFrom("translate", Lower(txt), 1) # 0
     THEN << PyDict(<<Entry("op", PyStr("translate_values")),
                      Entry("columns", PyList(<<PyStr("descripcion")>>)),
                      Entry("target_lang", PyStr(_infer_target_lang_from_text(txt)))>>) >>
     ELSE <<>>)
    \o (IF _find_convert_target(txt) # ""
        THEN << PyDict(<<Entry("op", PyStr("convert_units")),
                         Entry("target_unit", PyStr(_find_convert_target(txt)))>>) >>
        ELSE <<>>)

(***************************************************************************)
(* interpret_with_qwen as a state machine                                  *)
(***************************************************************************)
InstructionPool ==
    { PyNone, PyStr(""), PyStr("  \n"),
      PyStr("traducir la descripcion al inglés"),
      PyStr(" Expresá las unidades en cm y traducí al alemán "),
      PyStr("convertir a kg"),
      PyStr("convierte ancho a cm"),
      PyStr("filtrar por moneda ARS") }

\* the content of the reply: what chat_raw returns
ReplyPool ==
    { PyStr("{\"plan\":[{\"op\":\"filter_equals\",\"column\":\"moneda\",\"value\":\"ARS\"}]}"),
      PyStr(Fence \o "json\n{\"plan\":[{\"op\":\"export\"}]}\n" \o Fence),
      PyStr("Claro: {\"plan\":[{\"op\":\"bogus\"},{\"op\":\"currency_to\",\"target\":\"USD\"}]} listo"),
      PyStr("{'plan':[{'op':'export'}, 5, 'export']}"),
      PyStr("{\"plan\":[{\"op\":\"normalize_text\",\"columns\":[\"descripcion\"]}]}"),
      PyStr("{\"plan\":[{\"op\":\"export\"},{\"op\":[\"x\"]}]}"),
      PyStr("{\"plan\":[{\"op\":\"bogus\"},{\"op\":null}]}"),
      PyStr("{\"plan\":\"export\"}"),
      PyStr("{\"steps\":[{\"op\":\"export\"}]}"),
      PyStr("[{\"op\":\"export\"}]"),
      PyStr("{\"plan\":[{\"op\":\"export\"}"),
      PyStr("no puedo ayudar con eso"),
      PyStr(""),
      PyNone }

\* the state before a call of interpret_with_qwen; the executor and the
\* currency converter are not running
InitCompile ==
    /\ ureg = <<>> /\ uw = <<>>
    /\ raw_text = "" /\ intents = {} /\ slots = <<>> /\ spacy_plan = <<>> /\ report = <<>> /\ spc = "idle"
    /\ text \in InstructionPool
    /\ raw = PyNone
    /\ plan_llm = <<>>
    /\ plan_h = <<>>
    /\ final_plan = <<>>
    /\ meta = PyNone
    /\ cpc = "start"
    /\ chat = "none"
    /\ tags_or_list = PyNone /\ plan = <<>> /\ docs = <<>> /\ di = 1 /\ si = 1
    /\ keep = TRUE /\ out = <<>> /\ epc = "idle" /\ applied = <<>>
    /\ names = <<>> /\ files = <<>> /\ now = 0 /\ calls = <<>> /\ remote = <<>>
    /\ reqlog = <<>>
    /\ odoc = PyNone /\ ostep = PyNone /\ opc = "idle" /\ oret = PyNone
    /\ env = <<>> /\ olog = <<>>

\* the meta of an empty instruction
MetaEmpty ==
    PyDict(<<Entry("decisions", PyList(<<PyDict(<<Entry("op", PyStr("none")),
                                                  Entry("why", PyStr("texto vacío")),
                                                  Entry("confidence", PyFloat("0.0"))>>)>>))>>)

\* lines 235-238
MetaOf(pl) ==
    PyDict(<<Entry("source", PyStr(IF Len(pl) > 0 THEN "llm" ELSE "heuristic")),
             Entry("raw_ok", PyBool(Len(pl) > 0))>>)

\* a plan that merges the steps of both sources
FinalPlan_merged(pl, ph) == pl \o ph

\* line 227: plan_llm or plan_h
FinalPlan(pl, ph) == IF Len(pl) > 0 THEN pl ELSE ph

\* lines 201-203: text = (text or "").strip(); the empty instruction returns
Interpret ==
    /\ cpc = "start"
    /\ text' = PyStr(Strip(Or(text, PyStr("")).s))
    /\ IF text'.s = ""
       THEN final_plan' = <<>> /\ meta' = MetaEmpty /\ cpc' = "done"
       ELSE cpc' = "chat" /\ UNCHANGED <<final_plan, meta>>
    /\ UNCHANGED <<raw, plan_llm, plan_h, chat>>
    /\ UNCHANGED <<execVars, rateVars, opsVars, unitVars, spacyVars>>

\* line 211: client.chat_json returned the content of a reply
ChatReplies ==
    /\ cpc = "chat"
    /\ \E r \in ReplyPool : raw' = r
    /\ chat' = "ok"
    /\ cpc' = "parse"
    /\ UNCHANGED <<text, plan_llm, plan_h, final_plan, meta>>
    /\ UNCHANGED <<execVars, rateVars, opsVars, unitVars, spacyVars>>

\* line 211, outside of the try: requests.post timed out or could not
\* connect, or raise_for_status raised; the exception leaves the function
ChatFails ==
    /\ cpc = "chat"
    /\ chat' = "failed"
    /\ cpc' = "raised"
    /\ UNCHANGED <<text, raw, plan_llm, plan_h, final_plan, meta>>
    /\ UNCHANGED <<execVars, rateVars, opsVars, unitVars, spacyVars>>

\* lines 212-221
ParseReply ==
    /\ cpc = "parse"
    /\ plan_llm' = StepsOfReply(raw)
    /\ cpc' = "heuristic"
    /\ UNCHANGED <<text, raw, plan_h, final_plan, meta, chat>>
    /\ UNCHANGED <<execVars, rateVars, opsVars, unitVars, spacyVars>>

\* line 224
Heuristic ==
    /\ cpc = "heuristic"
    /\ plan_h' = _heuristic_plan(text.s)
    /\ cpc' = "select"
    /\ UNCHANGED <<text, raw, plan_llm, final_plan, meta, chat>>
    /\ UNCHANGED <<execVars, rateVars, opsVars, unitVars, spacyVars>>

\* lines 227-239
Select ==
    /\ cpc = "select"
    /\ final_plan' = FinalPlan(plan_llm, plan_h)
    /\ meta' = MetaOf(plan_llm)
    /\ cpc' = "done"
    /\ UNCHANGED <<text, raw, plan_llm, plan_h, chat>>
    /\ UNCHANGED <<execVars, rateVars, opsVars, unitVars, spacyVars>>

CompNext == Interpret \/ ChatReplies \/ ChatFails \/ ParseReply \/ Heuristic \/ Select

SpecCompile == InitCompile /\ [][CompNext]_vars

(***************************************************************************)
(* Properties of interpret_with_qwen                                       *)
(***************************************************************************)
\* C4: a returned call returns exactly the steps kept from the reply when
\* there is at least one, with meta.source "llm", and otherwise exactly the
\* heuristic plan of the instruction, with a source that is not "llm".
C4_PlanFromOneSource ==
    cpc = "done" =>
        IF Len(plan_llm) > 0
        THEN final_plan = plan_llm /\ DictGet(meta, "source") = PyStr("llm")
        ELSE final_plan = _heuristic_plan(text.s) /\ DictGet(meta, "source") # PyStr("llm")

\* the reply gave a plan while the heuristics have one of their own
C4_Witness ==
    /\ cpc = "done" /\ Len(plan_llm) > 0 /\ Len(plan_h) > 0
    /\ plan_llm # plan_h /\ final_plan = plan_llm

\* C5: after a request that timed out or failed in transport the call does
\* not raise, and what it returns is the heuristic plan of the instruction.
C5_FailedRequestFallsBack ==
    chat = "failed" =>
        /\ cpc # "raised"
        /\ cpc = "done" => final_plan = _heuristic_plan(text.s)

\* C6: every step kept from a reply is a dict whose op is one of the ten ops
\* of the executor, and a reply that does not parse into an object with a
\* plan list leaves no step.
C6_OnlyExecutorOps ==
    cpc \in {"heuristic", "select", "done"} /\ chat = "ok" =>
        /\ \A i \in DOMAIN plan_llm :
              IsDict(plan_llm[i]) /\ IsStr(DictGet(plan_llm[i], "op"))
              /\ DictGet(plan_llm[i], "op").s \in KnownOps
        /\ (~_extract_json_from_any(raw).ok
            \/ ~IsDict(_extract_json_from_any(raw).v)
            \/ ~IsList(DictGet(_extract_json_from_any(raw).v, "plan"))) => plan_llm = <<>>

(***************************************************************************)
(* The currency converter: input/currency_converter.py                     *)
(***************************************************************************)
TTL_SECONDS == 12 * 60 * 60

\* the file name of _cache_path (CACHE_DIR is the same for all of them)
_cache_path(base, date) == "rates_" \o Lower(base) \o "_" \o date \o ".json"
\* line 28
TmpPath(path) == path \o ".tmp"

Bases == {"usd", "eur", "ars"}
Paths == {_cache_path(b, "latest") : b \in Bases} \cup {TmpPath(_cache_path(b, "latest")) : b \in Bases}

\* {"date": ..., "<base>": {...}}: the body a source serves
RatesTable(base, date, rates) == PyDict(<<Entry("date", PyStr(date)), Entry(base, PyDict(rates))>>)

\* the full table of a base as the primary source serves it
Table(base) ==
    CASE base = "usd" -> RatesTable("usd", "2024-01-05", <<Entry("usd", PyInt(1)),
                            Entry("eur", PyFloat("0.5")), Entry("ars", PyInt(1000))>>)
      [] base = "eur" -> RatesTable("eur", "2024-01-05", <<Entry("eur", PyInt(1)),
                            Entry("usd", PyInt(2)), Entry("ars", PyInt(2000))>>)
      [] OTHER        -> RatesTable("ars", "2024-01-05", <<Entry("ars", PyInt(1)),
                            Entry("usd", PyFloat("0.001")), Entry("eur", PyFloat("0.0005"))>>)

\* the table of the day after, as the mirror serves it
MirrorTable(base) ==
    CASE base = "usd" -> RatesTable("usd", "2024-01-06", <<Entry("usd", PyInt(1)),
                            Entry("eur", PyFloat("0.4")), Entry("ars", PyInt(1250))>>)
      [] base = "eur" -> RatesTable("eur", "2024-01-06", <<Entry("eur", PyInt(1)),
                            Entry("usd", PyFloat("2.5")), Entry("ars", PyInt(3125))>>)
      [] OTHER        -> RatesTable("ars", "2024-01-06", <<Entry("ars", PyInt(1)),
                            Entry("usd", PyFloat("0.0008")), Entry("eur", PyFloat("0.00032"))>>)

\* a table that lists the dollar only
SparseTable(base) ==
    CASE base = "usd" -> RatesTable("usd", "2024-01-05", <<Entry("usd", PyInt(1))>>)
      [] base = "eur" -> RatesTable("eur", "2024-01-05", <<Entry("eur", PyInt(1)),
                            Entry("usd", PyInt(2))>>)
      [] OTHER        -> RatesTable("ars", "2024-01-05", <<Entry("ars", PyInt(1)),
                            Entry("usd", PyFloat("0.001"))>>)

\* a body without the key of the base
InvalidBody == PyDict(<<Entry("error", PyStr("not found"))>>)

\* the request fails: time-out, connection error, HTTP error, no JSON body
Down == PyNone

\* --- the files ---
\* the text of json.dump reaches the file in two writes; a chunk is the
\* part of the text of a table that one write carries
Parts == <<"head", "tail">>
Chunk(d, k) == [d |-> d, part |-> Parts[k]]
\* bytes never written, between the end of a truncated file and a later write
Hole == [d |-> PyNone, part |-> "hole"]

\* the file holds the whole text of one table
Complete(content) ==
    /\ Len(content) = Len(Parts)
    /\ \A k \in 1..Len(Parts) : content[k].part = Parts[k] /\ content[k].d = content[1].d

\* the text parses: every part is there, though maybe not of one table
Parses(content) ==
    /\ Len(content) = Len(Parts)
    /\ \A k \in 1..Len(Parts) : content[k].part = Parts[k]

\* the table read from the head of the text of d1 followed by the tail of
\* the text of d2: the last rate is the one of d2
MixTables(d1, d2) ==
    PyDict(<< d1.xs[1],
              Entry(d1.xs[2].k,
                    PyDict(SubSeq(d1.xs[2].v.xs, 1, Len(d1.xs[2].v.xs) - 1)
                           \o <<d2.xs[2].v.xs[Len(d2.xs[2].v.xs)]>>)) >>)

\* _load_cache: json.load of the file; ok = FALSE is the JSONDecodeError
_load_cache(path) ==
    IF ~Parses(files[names[path]].content) THEN [ok |-> FALSE, v |-> PyNone]
    ELSE IF Complete(files[names[path]].content)
    THEN [ok |-> TRUE, v |-> files[names[path]].content[1].d]
    ELSE [ok |-> TRUE, v |-> MixTables(files[names[path]].content[1].d,
                                       files[names[path]].content[2].d)]

\* a cache that is kept one second too long
_is_fresh_inclusive(path) ==
    names[path] # 0 /\ now - files[names[path]].mtime <= TTL_SECONDS

\* lines 20-21
_is_fresh(path) ==
    names[path] # 0 /\ now - files[names[path]].mtime < TTL_SECONDS

RECURSIVE Holes(_)
Holes(n) == IF n <= 0 THEN <<>> ELSE <<Hole>> \o Holes(n - 1)

\* write(ch) at offset off (counted in chunks) of a file with this content
WriteAt(content, off, ch) ==
    IF off + 1 <= Len(content) THEN [content EXCEPT ![off + 1] = ch]
    ELSE content \o Holes(off - Len(content)) \o <<ch>>

(***************************************************************************)
(* get_rates and convert as state machines, one copy per caller            *)
(***************************************************************************)
\* the number of clock steps and the length of one
MaxTicks == 3
TickSeconds == TTL_SECONDS \div 2

Sources == {"primary", "secondary"}

\* what a source serves for base x: its table, a table without most rates,
\* a body without the base, or nothing
Body(kind, src, x) ==
    CASE kind = "table"   -> (IF src = "primary" THEN Table(x) ELSE MirrorTable(x))
      [] kind = "sparse"  -> SparseTable(x)
      [] kind = "invalid" -> InvalidBody
      [] OTHER            -> Down

\* a call that has not started
NewCall(op, base, from_, to, amount) ==
    [op |-> op, pc |-> IF op = "convert" THEN "convert" ELSE "check",
     base |-> base, att |-> 0, from |-> from_, to |-> to, amount |-> amount,
     data |-> PyNone, fd |-> 0, off |-> 0, table |-> PyNone, result |-> NoNum,
     err |-> "", seen |-> [exists |-> FALSE, age |-> 0]]

\* the cache file of the get_rates a caller runs
Path(c) == _cache_path(calls[c].base, "latest")

LogEntry(c, src, ok, d) == [c |-> c, base |-> calls[c].base, src |-> src, ok |-> ok, data |-> d]

\* get_rates returns t: to the caller of the call, or to convert
GrReturn(cr, t) ==
    IF cr.op = "convert" THEN [cr EXCEPT !.pc = "got", !.table = t]
    ELSE [cr EXCEPT !.pc = "done", !.table = t]

\* get_rates raises e: the first attempt of convert swallows it (lines 72-78)
GrRaise(cr, e) ==
    IF cr.op = "convert" /\ cr.att = 1 THEN [cr EXCEPT !.pc = "second"]
    ELSE [cr EXCEPT !.pc = "raised", !.err = e]

\* lines 50-51: os.path.exists and os.path.getmtime of the cache file
GR_Check ==
    \E c \in DOMAIN calls :
        /\ calls[c].pc = "check"
        /\ calls' = [calls EXCEPT ![c] =
              [@ EXCEPT !.pc = IF _is_fresh(Path(c)) THEN "load" ELSE "primary",
                        !.seen = [exists |-> names[Path(c)] # 0,
                                  age |-> IF names[Path(c)] # 0
                                          THEN now - files[names[Path(c)]].mtime ELSE 0]]]
        /\ UNCHANGED <<names, files, now, remote, reqlog>>
        /\ UNCHANGED <<execVars, compVars, opsVars, unitVars, spacyVars>>

\* line 52: return self._load_cache(path)
GR_Load ==
    \E c \in DOMAIN calls :
        /\ calls[c].pc = "load"
        /\ calls' = [calls EXCEPT ![c] =
              IF _load_cache(Path(c)).ok THEN GrReturn(@, _load_cache(Path(c)).v)
              ELSE GrRaise(@, "JSONDecodeError")]
        /\ reqlog' = Append(reqlog, LogEntry(c, "cache", _load_cache(Path(c)).ok,
                                             _load_cache(Path(c)).v))
        /\ UNCHANGED <<names, files, now, remote>>
        /\ UNCHANGED <<execVars, compVars, opsVars, unitVars, spacyVars>>

\* a get_rates that saves whatever body it fetched
Fetched_unchecked(cr, b) == [cr EXCEPT !.pc = "open", !.data = b]

\* the call after the body b came from a source: line 43 returns it, lines
\* 56-57 raise ValueError when it has no key of the base
Fetched(cr, b) ==
    IF ~HasKey(b, Lower(cr.base)) THEN GrRaise(cr, "ValueError: respuesta invalida")
    ELSE [cr EXCEPT !.pc = "open", !.data = b]

\* lines 39-45, the first url (of base.lower(), lines 35-36)
GR_Primary ==
    \E c \in DOMAIN calls :
        /\ calls[c].pc = "primary"
        /\ calls' = [calls EXCEPT ![c] =
              IF remote["primary"][Lower(calls[c].base)] = Down THEN [@ EXCEPT !.pc = "secondary"]
              ELSE Fetched(@, remote["primary"][Lower(calls[c].base)])]
        /\ reqlog' = Append(reqlog, LogEntry(c, "primary", remote["primary"][Lower(calls[c].base)] # Down,
                                             remote["primary"][Lower(calls[c].base)]))
        /\ UNCHANGED <<names, files, now, remote>>
        /\ UNCHANGED <<execVars, compVars, opsVars, unitVars, spacyVars>>

\* lines 39-46, the second url; RuntimeError when it fails too
GR_Secondary ==
    \E c \in DOMAIN calls :
        /\ calls[c].pc = "secondary"
        /\ calls' = [calls EXCEPT ![c] =
              IF remote["secondary"][Lower(calls[c].base)] = Down THEN GrRaise(@, "RuntimeError")
              ELSE Fetched(@, remote["secondary"][Lower(calls[c].base)])]
        /\ reqlog' = Append(reqlog, LogEntry(c, "secondary", remote["secondary"][Lower(calls[c].base)] # Down,
                                             remote["secondary"][Lower(calls[c].base)]))
        /\ UNCHANGED <<names, files, now, remote>>
        /\ UNCHANGED <<execVars, compVars, opsVars, unitVars, spacyVars>>

\* line 29: open(tmp, "w") creates the file or truncates the one of that name
GR_OpenTmp ==
    \E c \in DOMAIN calls :
        /\ calls[c].pc = "open"
        /\ IF names[TmpPath(Path(c))] = 0
           THEN /\ files' = Append(files, [content |-> <<>>, mtime |-> now])
                /\ names' = [names EXCEPT ![TmpPath(Path(c))] = Len(files) + 1]
           ELSE /\ files' = [files EXCEPT ![names[TmpPath(Path(c))]] = [content |-> <<>>, mtime |-> now]]
                /\ names' = names
        /\ calls' = [calls EXCEPT ![c] =
              [@ EXCEPT !.pc = "write", !.fd = names'[TmpPath(Path(c))], !.off = 0]]
        /\ UNCHANGED <<now, remote, reqlog>>
        /\ UNCHANGED <<execVars, compVars, opsVars, unitVars, spacyVars>>

\* line 30 and the close of line 29: one write of the text per step
GR_Write ==
    \E c \in DOMAIN calls :
        /\ calls[c].pc = "write"
        /\ files' = [files EXCEPT ![calls[c].fd] =
              [content |-> WriteAt(@.content, calls[c].off, Chunk(calls[c].data, calls[c].off + 1)),
               mtime |-> now]]
        /\ calls' = [calls EXCEPT ![c] =
              [@ EXCEPT !.off = @ + 1,
                        !.pc = IF calls[c].off + 1 = Len(Parts) THEN "replace" ELSE "write"]]
        /\ UNCHANGED <<names, now, remote, reqlog>>
        /\ UNCHANGED <<execVars, compVars, opsVars, unitVars, spacyVars>>

\* line 31: os.replace(tmp, path); FileNotFoundError when tmp is gone
GR_Replace ==
    \E c \in DOMAIN calls :
        /\ calls[c].pc = "replace"
        /\ IF names[TmpPath(Path(c))] = 0
           THEN /\ names' = names
                /\ calls' = [calls EXCEPT ![c] = GrRaise(@, "FileNotFoundError")]
           ELSE /\ names' = [names EXCEPT ![Path(c)] = names[TmpPath(Path(c))],
                                          ![TmpPath(Path(c))] = 0]
                /\ calls' = [calls EXCEPT ![c] = GrReturn(@, @.data)]
        /\ UNCHANGED <<files, now, remote, reqlog>>
        /\ UNCHANGED <<execVars, compVars, opsVars, unitVars, spacyVars>>

\* time passes
Tick ==
    /\ now < MaxTicks * TickSeconds
    /\ now' = now + TickSeconds
    /\ UNCHANGED <<names, files, calls, remote, reqlog>>
    /\ UNCHANGED <<execVars, compVars, opsVars, unitVars, spacyVars>>

\* the error of line 84
NoCross == "ValueError: No hay cruce disponible"

\* lines 66-69: lower both codes; the same currency is the amount itself
CV_Start ==
    \E c \in DOMAIN calls :
        /\ calls[c].pc = "convert"
        /\ calls' = [calls EXCEPT ![c] =
              IF Lower(@.from) = Lower(@.to)
              THEN [@ EXCEPT !.from = Lower(@), !.to = Lower(@), !.pc = "done",
                             !.result = Rat(calls[c].amount, 1)]
              ELSE [@ EXCEPT !.from = Lower(@), !.to = Lower(@), !.att = 1,
                             !.base = Lower(calls[c].from), !.pc = "check"]]
        /\ UNCHANGED <<names, files, now, remote, reqlog>>
        /\ UNCHANGED <<execVars, compVars, opsVars, unitVars, spacyVars>>

\* lines 74-78: data[from_], `to in rates`, the product; whatever raises is
\* swallowed and the second attempt follows
CV_First ==
    \E c \in DOMAIN calls :
        /\ calls[c].pc = "got" /\ calls[c].att = 1
        /\ calls' = [calls EXCEPT ![c] =
              IF /\ HasKey(@.table, @.from)
                 /\ IsDict(DictGet(@.table, @.from))
                 /\ HasKey(DictGet(@.table, @.from), @.to)
                 /\ FloatOf(DictGet(DictGet(@.table, @.from), @.to)).ok
              THEN [@ EXCEPT !.pc = "done",
                             !.result = RatMul(Rat(calls[c].amount, 1),
                                 FloatOf(DictGet(DictGet(calls[c].table, calls[c].from), calls[c].to)))]
              ELSE [@ EXCEPT !.pc = "second"]]
        /\ UNCHANGED <<names, files, now, remote, reqlog>>
        /\ UNCHANGED <<execVars, compVars, opsVars, unitVars, spacyVars>>

\* line 81: get_rates(base=to), outside any try
CV_Second ==
    \E c \in DOMAIN calls :
        /\ calls[c].pc = "second"
        /\ calls' = [calls EXCEPT ![c] = [@ EXCEPT !.att = 2, !.base = calls[c].to, !.pc = "check"]]
        /\ UNCHANGED <<names, files, now, remote, reqlog>>
        /\ UNCHANGED <<execVars, compVars, opsVars, unitVars, spacyVars>>

\* lines 82-86: data[to], the no-crossing error, the inverse rate
CV_Invert ==
    \E c \in DOMAIN calls :
        /\ calls[c].pc = "got" /\ calls[c].att = 2
        /\ calls' = [calls EXCEPT ![c] =
              IF ~HasKey(@.table, @.to)
              THEN [@ EXCEPT !.pc = "raised", !.err = "KeyError"]
              ELSE IF ~IsDict(DictGet(@.table, @.to))
              THEN [@ EXCEPT !.pc = "raised", !.err = "TypeError"]
              ELSE IF ~HasKey(DictGet(@.table, @.to), @.from)
              THEN [@ EXCEPT !.pc = "raised", !.err = NoCross]
              ELSE IF ~FloatOf(DictGet(DictGet(@.table, @.to), @.from)).ok
              THEN [@ EXCEPT !.pc = "raised", !.err = "ValueError: could not convert"]
              ELSE IF FloatOf(DictGet(DictGet(@.table, @.to), @.from)).n = 0
              THEN [@ EXCEPT !.pc = "raised", !.err = "ZeroDivisionError"]
              ELSE [@ EXCEPT !.pc = "done",
                             !.result = RatDiv(Rat(calls[c].amount, 1),
                                 FloatOf(DictGet(DictGet(calls[c].table, calls[c].to), calls[c].from)))]]
        /\ UNCHANGED <<names, files, now, remote, reqlog>>
        /\ UNCHANGED <<execVars, compVars, opsVars, unitVars, spacyVars>>

\* --- two callers of get_rates for one base, the clock running ---
BodyKinds == {"table", "invalid", "down"}

InitRates ==
    /\ ureg = <<>> /\ uw = <<>>
    /\ raw_text = "" /\ intents = {} /\ slots = <<>> /\ spacy_plan = <<>> /\ report = <<>> /\ spc = "idle"
    /\ \E b \in {"usd", "EUR"} : \E cached \in BOOLEAN :
          /\ calls = [c \in {"a", "b"} |-> NewCall("get_rates", b, "", "", 0)]
          /\ files = IF cached
                     THEN <<[content |-> <<Chunk(SparseTable(Lower(b)), 1), Chunk(SparseTable(Lower(b)), 2)>>,
                             mtime |-> 0]>>
                     ELSE <<>>
          /\ names = [p \in Paths |-> IF cached /\ p = _cache_path(b, "latest") THEN 1 ELSE 0]
    /\ \E pk \in BodyKinds : \E sk \in BodyKinds :
          remote = [src \in Sources |-> [x \in Bases |->
                       Body(IF src = "primary" THEN pk ELSE sk, src, x)]]
    /\ now = 0
    /\ reqlog = <<>>
    /\ tags_or_list = PyNone /\ plan = <<>> /\ docs = <<>> /\ di = 1 /\ si = 1
    /\ keep = TRUE /\ out = <<>> /\ epc = "idle" /\ applied = <<>>
    /\ text = PyNone /\ raw = PyNone /\ plan_llm = <<>> /\ plan_h = <<>>
    /\ final_plan = <<>> /\ meta = PyNone /\ cpc = "idle" /\ chat = "none"
    /\ odoc = PyNone /\ ostep = PyNone /\ opc = "idle" /\ oret = PyNone
    /\ env = <<>> /\ olog = <<>>

RatesNext ==
    \/ GR_Check
    \/ GR_Load
    \/ GR_Primary
    \/ GR_Secondary
    \/ GR_OpenTmp
    \/ GR_Write
    \/ GR_Replace
    \/ Tick

SpecRates == InitRates /\ [][RatesNext]_vars

\* --- one caller of convert, every world of tables ---
ConvertKinds == {"table", "sparse", "invalid", "down"}
Codes == {"USD", "EUR", "ARS"}

InitConvert ==
    /\ ureg = <<>> /\ uw = <<>>
    /\ raw_text = "" /\ intents = {} /\ slots = <<>> /\ spacy_plan = <<>> /\ report = <<>> /\ spc = "idle"
    /\ \E f \in Codes : \E t \in Codes :
          calls = [c \in {"a"} |-> NewCall("convert", "", f, t, 100)]
    /\ \E cached \in BOOLEAN :
          /\ files = IF cached
                     THEN <<[content |-> <<Chunk(SparseTable("eur"), 1), Chunk(SparseTable("eur"), 2)>>,
                             mtime |-> 0]>>
                     ELSE <<>>
          /\ names = [p \in Paths |-> IF cached /\ p = _cache_path("eur", "latest") THEN 1 ELSE 0]
    /\ \E pk \in [Bases -> ConvertKinds] : \E sk \in {"table", "down"} :
          remote = [src \in Sources |-> [x \in Bases |->
                       Body(IF src = "primary" THEN pk[x] ELSE sk, src, x)]]
    /\ now = 0
    /\ reqlog = <<>>
    /\ tags_or_list = PyNone /\ plan = <<>> /\ docs = <<>> /\ di = 1 /\ si = 1
    /\ keep = TRUE /\ out = <<>> /\ epc = "idle" /\ applied = <<>>
    /\ text = PyNone /\ raw = PyNone /\ plan_llm = <<>> /\ plan_h = <<>>
    /\ final_plan = <<>> /\ meta = PyNone /\ cpc = "idle" /\ chat = "none"
    /\ odoc = PyNone /\ ostep = PyNone /\ opc = "idle" /\ oret = PyNone
    /\ env = <<>> /\ olog = <<>>

ConvertNext ==
    \/ CV_Start
    \/ CV_First
    \/ CV_Second
    \/ CV_Invert
    \/ GR_Check
    \/ GR_Load
    \/ GR_Primary
    \/ GR_Secondary
    \/ GR_OpenTmp
    \/ GR_Write
    \/ GR_Replace

SpecConvert == InitConvert /\ [][ConvertNext]_vars

(***************************************************************************)
(* Properties of the converter                                             *)
(***************************************************************************)
\* the remote requests a call made, and its reads of the cache, in order
Requests(c) == SelectSeq(reqlog, LAMBDA e : e.c = c /\ e.src \in Sources)
CacheReads(c) == SelectSeq(reqlog, LAMBDA e : e.c = c /\ e.src = "cache")

\* what the call found when it looked: a cache file younger than 12 hours
SawFresh(c) == calls[c].seen.exists /\ calls[c].seen.age < 12 * 60 * 60

\* C7: a get_rates call that finds the cache file of its (base, date) and
\* finds it younger than 12 hours makes no remote request, writes nothing
\* and returns the table it read from the cache file; any other call never
\* reads the cache, requests the primary source first, requests the mirror
\* only after the primary request failed (and then always), writes the cache
\* file only with the body of a request that succeeded and has the key of
\* the base, and returns that body.
C7_CacheThenPrimaryThenMirror ==
    \A c \in DOMAIN calls :
        (calls[c].op = "get_rates" /\ calls[c].pc # "check") =>
            IF SawFresh(c)
            THEN /\ Requests(c) = <<>>
                 /\ calls[c].fd = 0
                 /\ calls[c].pc \in {"load", "done", "raised"}
                 /\ calls[c].pc = "done" =>
                       /\ Len(CacheReads(c)) = 1
                       /\ CacheReads(c)[1].ok
                       /\ calls[c].table = CacheReads(c)[1].data
            ELSE /\ CacheReads(c) = <<>>
                 /\ Len(Requests(c)) <= 2
                 /\ calls[c].pc # "primary" =>
                       Len(Requests(c)) >= 1 /\ Requests(c)[1].src = "primary"
                 /\ calls[c].pc = "secondary" =>
                       Len(Requests(c)) = 1 /\ ~Requests(c)[1].ok
                 /\ Len(Requests(c)) = 2 =>
                       ~Requests(c)[1].ok /\ Requests(c)[2].src = "secondary"
                 /\ (calls[c].pc \notin {"primary", "secondary"} /\ ~Requests(c)[1].ok) =>
                       Len(Requests(c)) = 2
                 /\ calls[c].pc \in {"open", "write", "replace", "done"} =>
                       /\ Requests(c)[Len(Requests(c))].ok
                       /\ Requests(c)[Len(Requests(c))].data = calls[c].data
                       /\ HasKey(calls[c].data, Lower(calls[c].base))
                 /\ calls[c].fd # 0 => calls[c].pc \in {"write", "replace", "done", "raised"}
                 /\ calls[c].pc = "done" => calls[c].table = calls[c].data
                 /\ (calls[c].pc = "raised" /\ calls[c].err # "FileNotFoundError") =>
                       calls[c].fd = 0

\* one call served by the fresh cache, and a later one that found it 12
\* hours old, failed on the primary, got the table of the mirror and left
\* it in the cache file
C7_Witness ==
    \E c1 \in DOMAIN calls : \E c2 \in DOMAIN calls :
        /\ calls[c1].op = "get_rates" /\ calls[c1].pc = "done" /\ SawFresh(c1)
        /\ calls[c1].table = SparseTable(Lower(calls[c1].base))
        /\ calls[c2].op = "get_rates" /\ calls[c2].pc = "done"
        /\ calls[c2].seen.exists /\ calls[c2].seen.age = 12 * 60 * 60
        /\ Len(Requests(c2)) = 2
        /\ calls[c2].table = MirrorTable(Lower(calls[c2].base))
        /\ names[Path(c2)] # 0
        /\ Complete(files[names[Path(c2)]].content)
        /\ files[names[Path(c2)]].content[1].d = calls[c2].table

\* C8: at every moment the cache file of a (base, date) is absent or holds
\* one complete rate table, and no call fails in os.replace because another
\* call writes the same cache file.
C8_AtomicCacheWrite ==
    /\ \A b \in Bases :
          names[_cache_path(b, "latest")] # 0 =>
              Complete(files[names[_cache_path(b, "latest")]].content)
    /\ \A c \in DOMAIN calls : calls[c].err # "FileNotFoundError"

\* the call found no cache file younger than 12 hours and got no body with
\* the key of its base: both sources failed, or the one that answered sent
\* a body without the key
NothingToServe(c) ==
    /\ calls[c].pc \notin {"check", "primary", "secondary"}
    /\ ~SawFresh(c)
    /\ Requests(c) # <<>>
    /\ \/ \A k \in 1..Len(Requests(c)) : ~Requests(c)[k].ok
       \/ ~HasKey(Requests(c)[Len(Requests(c))].data, Lower(calls[c].base))

\* C30: get_rates reads the cache only when it found the file younger than
\* the TTL; a call that found it stale or absent and got no body with the
\* key of the base (both sources fail, or the reply lacks the key) raises
\* without having opened a file for writing, and the step in which it
\* raises leaves every file as it was; no file ever holds a body without
\* the key of the base.
C30_StaleCacheNeverServed ==
    /\ [](\A c \in DOMAIN calls :
             /\ CacheReads(c) # <<>> => SawFresh(c)
             /\ NothingToServe(c) =>
                   /\ calls[c].pc = "raised"
                   /\ calls[c].err \in {"RuntimeError", "ValueError: respuesta invalida"}
                   /\ calls[c].fd = 0
             /\ (calls[c].pc = "done" /\ ~SawFresh(c)) =>
                   /\ Requests(c)[Len(Requests(c))].ok
                   /\ calls[c].table = Requests(c)[Len(Requests(c))].data
                   /\ HasKey(calls[c].table, Lower(calls[c].base)))
    /\ [](\A f \in 1..Len(files) : \A k \in 1..Len(files[f].content) :
             files[f].content[k].d # PyNone =>
                 \A c \in DOMAIN calls : HasKey(files[f].content[k].d, Lower(calls[c].base)))
    /\ [][\A c \in DOMAIN calls :
             (calls[c].pc # "raised" /\ calls'[c].pc = "raised" /\ calls'[c].fd = 0) =>
                 UNCHANGED <<names, files>>]_vars

\* a call found the cache file 12 hours old or more, both sources failed,
\* it raised, and the cache file still holds the table it held
C30_Witness ==
    \E c \in DOMAIN calls :
        /\ calls[c].op = "get_rates" /\ calls[c].pc = "raised"
        /\ calls[c].err = "RuntimeError"
        /\ calls[c].seen.exists /\ calls[c].seen.age >= TTL_SECONDS
        /\ Len(Requests(c)) = 2
        /\ names[Path(c)] # 0
        /\ files[names[Path(c)]] =
              [content |-> <<Chunk(SparseTable(Lower(calls[c].base)), 1),
                             Chunk(SparseTable(Lower(calls[c].base)), 2)>>, mtime |-> 0]

RatEq(a, b) == a.ok /\ b.ok /\ a.n * b.d = b.n * a.d

\* the table the call c obtained for base x, from the cache or a source
Obtained(c, x) ==
    IF SelectSeq(reqlog, LAMBDA e : e.c = c /\ e.base = x /\ e.ok) = <<>> THEN PyNone
    ELSE SelectSeq(reqlog, LAMBDA e : e.c = c /\ e.base = x /\ e.ok)[1].data

\* the table t has a rate from x to y
HasRate(t, x, y) == IsDict(t) /\ HasKey(t, x) /\ IsDict(DictGet(t, x)) /\ HasKey(DictGet(t, x), y)
RateIn(t, x, y) == FloatOf(DictGet(DictGet(t, x), y))

\* C9: a convert between two different currencies that returns has used
\* the rate of the base=from table when that table has `to`, and otherwise
\* the inverse of the rate of the base=to table; one that raises raises the
\* no-crossing error.
C9_ConvertCrossings ==
    \A c \in DOMAIN calls :
        (calls[c].op = "convert" /\ Lower(calls[c].from) # Lower(calls[c].to)) =>
            /\ calls[c].pc = "done" =>
                  IF HasRate(Obtained(c, calls[c].from), calls[c].from, calls[c].to)
                  THEN RatEq(calls[c].result,
                             RatMul(Rat(calls[c].amount, 1),
                                    RateIn(Obtained(c, calls[c].from), calls[c].from, calls[c].to)))
                  ELSE /\ HasRate(Obtained(c, calls[c].to), calls[c].to, calls[c].from)
                       /\ RatEq(calls[c].result,
                                RatDiv(Rat(calls[c].amount, 1),
                                       RateIn(Obtained(c, calls[c].to), calls[c].to, calls[c].from)))
            /\ calls[c].pc = "raised" => calls[c].err = NoCross

\* the table get_rates(x) has to offer: the fresh cache file, or else the
\* body of the first source that answers
Available(x) ==
    IF _is_fresh(_cache_path(x, "latest")) /\ _load_cache(_cache_path(x, "latest")).ok
    THEN _load_cache(_cache_path(x, "latest")).v
    ELSE IF remote["primary"][x] # Down THEN remote["primary"][x]
    ELSE remote["secondary"][x]

\* C10: when neither the eur table has ars nor the ars table has eur, but
\* the eur table has usd and the usd table has ars, convert(100, EUR, ARS)
\* returns, and returns what the two legs through usd give:
\* 100 * rate(eur, usd) * rate(usd, ars).
C10_TriangulationThroughUsd ==
    \A c \in DOMAIN calls :
        ( /\ calls[c].op = "convert" /\ calls[c].amount = 100
          /\ Lower(calls[c].from) = "eur" /\ Lower(calls[c].to) = "ars"
          /\ ~HasRate(Available("eur"), "eur", "ars")
          /\ ~HasRate(Available("ars"), "ars", "eur")
          /\ HasRate(Available("eur"), "eur", "usd")
          /\ HasRate(Available("usd"), "usd", "ars")
          /\ calls[c].pc \in {"done", "raised"} ) =>
            /\ calls[c].pc = "done"
            /\ RatEq(calls[c].result,
                     RatMul(RatMul(Rat(100, 1), RateIn(Available("eur"), "eur", "usd")),
                            RateIn(Available("usd"), "usd", "ars")))

(***************************************************************************)
(* execute_plan on the documents and plans of the scenarios                *)
(***************************************************************************)
\* flat documents, as the scenarios write them
Doc_Fecha == PyDict(<<Entry("Fecha", PyStr("05/01/2024"))>>)
Doc_monto50 == PyDict(<<Entry("monto", PyStr("50"))>>)
Doc_monto150 == PyDict(<<Entry("monto", PyStr("150"))>>)
Doc_cliente == PyDict(<<Entry("cliente", PyStr("ACME"))>>)
Doc_fecha == PyDict(<<Entry("fecha", PyStr("15/03/2024"))>>)
\* documents in the schema of the tags
Doc_total50 == PyDict(<<Entry("totals", PyDict(<<Entry("total", PyStr("50")), Entry("currency", PyStr("ARS"))>>))>>)
Doc_total150 ==
    PyDict(<<Entry("totals", PyDict(<<Entry("total", PyStr("150")), Entry("currency", PyStr("Dólar"))>>)),
             Entry("dates", PyDict(<<Entry("issue_date", PyStr("15/03/2024"))>>))>>)
Doc_items ==
    PyDict(<<Entry("dates", PyDict(<<Entry("issue_date", PyStr("150"))>>)),
             Entry("items", PyList(<<PyDict(<<Entry("largo", PyStr("12 cm"))>>),
                                     PyDict(<<Entry("description", PyStr("Camión 2024-03-15"))>>)>>))>>)

\* the old and the new name of a rename side by side
Doc_Fecha_fecha == PyDict(<<Entry("Fecha", PyStr("05/01/2024")), Entry("fecha", PyStr("2024-01-05"))>>)
Doc_description ==
    PyDict(<<Entry("items", PyList(<<PyDict(<<Entry("description", PyStr("Tornillo")),
                                              Entry("descripcion", PyStr("Tuerca"))>>),
                                     PyDict(<<Entry("Description", PyStr("Arandela"))>>)>>))>>)
\* text where the totals object is expected
Doc_totals_text == PyDict(<<Entry("totals", PyStr("sin totales"))>>)

\* white space around the values
Doc_padded ==
    PyDict(<<Entry("totals", PyDict(<<Entry("total", PyStr(" 150 ")), Entry("currency", PyStr("ARS "))>>))>>)

\* one item with a length
LengthDoc(t) == PyDict(<<Entry("items", PyList(<<PyDict(<<Entry("largo", PyStr(t))>>)>>))>>)
LengthTexts == {"1 mm", "12 cm", "2.5 m", "3 in"}
LengthUnits == {"mm", "cm", "m", "in"}

ScenarioInputs ==
    { Doc_Fecha, Doc_cliente, Doc_fecha, Doc_total50, Doc_total150, Doc_items,
      Doc_Fecha_fecha, Doc_description, Doc_totals_text, Doc_padded,
      PyList(<<Doc_monto50, Doc_monto150>>),
      PyList(<<Doc_total50, Doc_total150>>),
      PyStr("no es un documento") }
    \cup {LengthDoc(t) : t \in LengthTexts}

Plan_rename_format ==
    << Step("rename_columns", <<Entry("map", PyDict(<<Entry("Fecha", PyStr("fecha"))>>))>>),
       Step("format_date", <<Entry("column", PyStr("fecha")), Entry("output_fmt", PyStr("%Y-%m-%d"))>>) >>
\* {"op":"filter_compare","column":"monto","op":">","value":"100"}: the
\* second "op" of the literal replaces the first
Plan_compare_literal == << Step(">", <<Entry("column", PyStr("monto")), Entry("value", PyStr("100"))>>) >>
Rename(old, new) == Step("rename_columns", <<Entry("map", PyDict(<<Entry(old, PyStr(new))>>))>>)
\* the same rename_columns step two times
RenameTwicePlans ==
    { << Rename("Fecha", "fecha"), Rename("Fecha", "fecha") >>,
      << Rename("description", "descripcion"), Rename("description", "descripcion") >> }
CurrencyPlans ==
    { << Step("currency_to", <<Entry("columns", PyList(<<PyStr("monto")>>)),
                               Entry("target", PyStr("eur")), Entry("rate", PyInt(2))>>) >>,
      << Step("currency_to", <<>>) >> }
Filter(op, column, value) == Step(op, <<Entry("column", PyStr(column)), Entry("value", value)>>)
Between(column, lo, hi) ==
    Step("filter_between", <<Entry("column", PyStr(column)),
                             Entry("range", PyList(<<PyStr(lo), PyStr(hi)>>))>>)

ConvertTo(column, unit) ==
    Step("convert_units", <<Entry("columns", PyList(<<PyStr(column)>>)), Entry("target_unit", PyStr(unit))>>)
\* to the unit u2 and back to the unit u1
ThereAndBack(u1, u2) == << ConvertTo("largo", u2), ConvertTo("largo", u1) >>
RoundTripPlans == {ThereAndBack(u1, u2) : u1 \in LengthUnits, u2 \in LengthUnits}

ScenarioPlans ==
    RenameTwicePlans \cup CurrencyPlans \cup RoundTripPlans \cup
    { Plan_rename_format, Plan_compare_literal,
      << Filter("filter_compare", "monto", PyStr("100")) >>,
      << Filter("filter_equals", "cliente", PyStr("acme")) >>,
      << Filter("filter_equals", "moneda", PyStr("ars")) >>,
      << Filter("filter_equals", "moneda", PyStr("dolar")) >>,
      << Filter("filter_equals", "fecha", PyStr("")) >>,
      << Filter("filter_equals", "descripcion", PyStr("")) >>,
      << Filter("filter_contains", "moneda", PyStr("DOL")) >>,
      << Filter("filter_contains", "descripcion", PyStr("CAMION")) >>,
      << Filter("filter_contains", "descripcion", PyStr("camión")) >>,
      << Filter("filter_contains", "fecha", PyNone) >>,
      << Filter("filter_contains", "largo", PyStr("")) >>,
      << Between("fecha", "2024-01-01", "2024-12-31") >>,
      << Between("fecha", "15/03/2024", "15/03/2024") >>,
      << Between("fecha", "100", "200") >>,
      << Between("monto", "150", "200") >>,
      << Between("monto", "2024-01-01", "2024-12-31") >>,
      << Between("descripcion", "2024-01-01", "2024-12-31") >>,
      << Between("cliente", "A", "Z") >> }

InitScenarios ==
    /\ ureg = <<>> /\ uw = <<>>
    /\ raw_text = "" /\ intents = {} /\ slots = <<>> /\ spacy_plan = <<>> /\ report = <<>> /\ spc = "idle"
    /\ tags_or_list \in ScenarioInputs
    /\ plan \in ScenarioPlans
    /\ docs = <<>>
    /\ di = 1
    /\ si = 1
    /\ keep = TRUE
    /\ out = <<>>
    /\ epc = "start"
    /\ applied = <<>>
    /\ text = PyNone /\ raw = PyNone /\ plan_llm = <<>> /\ plan_h = <<>>
    /\ final_plan = <<>> /\ meta = PyNone /\ cpc = "idle" /\ chat = "none"
    /\ names = <<>> /\ files = <<>> /\ now = 0 /\ calls = <<>> /\ remote = <<>>
    /\ reqlog = <<>>
    /\ odoc = PyNone /\ ostep = PyNone /\ opc = "idle" /\ oret = PyNone
    /\ env = <<>> /\ olog = <<>>

ScenarioNext ==
    \/ Start
    \/ Do_rename_columns
    \/ Do_format_date
    \/ Do_filter_equals
    \/ Do_filter_contains
    \/ Do_filter_compare
    \/ Do_filter_between
    \/ Do_currency_to
    \/ Do_convert_units
    \/ Do_unknown
    \/ FinishDoc
    \/ Return

SpecScenarios == InitScenarios /\ [][ScenarioNext]_vars

\* C12: the plan [rename_columns {Fecha -> fecha}, format_date on fecha
\* with output format %Y-%m-%d] over {"Fecha": "05/01/2024"} returns exactly
\* the one document {"fecha": "2024-01-05"}.
C12_RenameThenFormat ==
    (epc = "done" /\ tags_or_list = Doc_Fecha /\ plan = Plan_rename_format) =>
        Returned = << PyDict(<<Entry("fecha", PyStr("2024-01-05"))>>) >>

(***************************************************************************)
(* nlp/runtime.py: the key resolver and the number parser                  *)
(***************************************************************************)
\* runtime.py:12-13
norm(x) == Strip(IF IsNone(x) THEN "" ELSE Str(x))

\* the key folding without the diacritics step
nkey_keeps_marks(x) == Strip(Lower(Str(x)))

\* runtime.py:15-17
nkey(x) == Strip(Lower(StripMarks(Str(x))))

\* re.sub(r"[^\d,.\-]", "", v)
NumberChars == "0123456789,.-"

\* runtime.py:25-34, for the text left by the re.sub
ParseCleaned(c) ==
    ParseFloat(IF InStr(",", c) /\ InStr(".", c)
               THEN IF IndexOf(",", c) > IndexOf(".", c)
                    THEN ReplaceChar(DropChar(c, "."), ",", ".")
                    ELSE DropChar(c, ",")
               ELSE IF InStr(",", c) THEN ReplaceChar(c, ",", ".") ELSE c)

\* runtime.py:19-34
parse_number(value) ==
    IF IsNone(value) THEN NoNum
    ELSE IF Strip(Str(value)) = "" THEN NoNum
    ELSE ParseCleaned(KeepChars(Strip(Str(value)), NumberChars))

\* a (container, key) pair: the container is named by its path from the
\* root, made of keys (str) and list positions (int)
KeyMatch(path, key) == [path |-> path, key |-> key]

RECURSIVE FindKeysIn(_, _, _)
RECURSIVE FindKeysEntries(_, _, _, _, _)
\* _rec(o) of find_keys: the matches in o, in the order of the traversal
FindKeysIn(o, path, tgt) ==
    IF IsDict(o) \/ IsList(o) THEN FindKeysEntries(o.xs, 1, IsDict(o), path, tgt) ELSE <<>>
FindKeysEntries(es, i, keyed, path, tgt) ==
    IF i > Len(es) THEN <<>>
    ELSE (IF keyed /\ nkey(PyStr(es[i].k)) = tgt THEN <<KeyMatch(path, es[i].k)>> ELSE <<>>)
         \o FindKeysIn(es[i].v, Append(path, IF keyed THEN PyStr(es[i].k) ELSE PyInt(i - 1)), tgt)
         \o FindKeysEntries(es, i + 1, keyed, path, tgt)

\* runtime.py:38-50
find_keys(obj, target) == FindKeysIn(obj, <<>>, nkey(target))

RECURSIVE GetAtFrom(_, _, _)
\* the value a path leads to (None when the path leads nowhere)
GetAtFrom(o, path, i) ==
    IF i > Len(path) THEN o
    ELSE IF IsDict(o) /\ IsStr(path[i]) /\ HasKey(o, path[i].s)
    THEN GetAtFrom(DictGet(o, path[i].s), path, i + 1)
    ELSE IF IsList(o) /\ IsInt(path[i]) /\ ToNat(path[i].s) < Len(o.xs)
    THEN GetAtFrom(o.xs[ToNat(path[i].s) + 1].v, path, i + 1)
    ELSE PyNone
GetAt(o, path) == GetAtFrom(o, path, 1)

\* parent[key] of a match
MatchValue(doc, m) == DictGet(GetAt(doc, m.path), m.key)

RECURSIVE SetAtFrom(_, _, _, _)
\* the document with the value at a path replaced
SetAtFrom(o, path, i, x) ==
    IF i > Len(path) THEN x
    ELSE IF IsDict(o)
    THEN DictSet(o, path[i].s, SetAtFrom(DictGet(o, path[i].s), path, i + 1, x))
    ELSE [o EXCEPT !.xs[ToNat(path[i].s) + 1] =
             Entry("", SetAtFrom(o.xs[ToNat(path[i].s) + 1].v, path, i + 1, x))]
\* parent[key] = x for the container at path
SetKeyAt(doc, path, key, x) == SetAtFrom(doc, Append(path, PyStr(key)), 1, x)

(***************************************************************************)
(* nlp/runtime.py: the passes over a whole document                        *)
(***************************************************************************)
RECURSIVE HyphenInWordFrom(_, _)
\* re.search(r"(?<=\w)-(?=\w)", t)
HyphenInWordFrom(t, i) ==
    IF i >= Len(t) THEN FALSE
    ELSE IF /\ Ch(t, i) = "-"
            /\ IsWordChar(Ch(t, i - 1))
            /\ IsWordChar(Ch(t, i + 1))
    THEN TRUE
    ELSE HyphenInWordFrom(t, i + 1)

RECURSIVE StripParens(_)
\* u.strip("()")
StripParens(u) ==
    IF u = "" THEN u
    ELSE IF InStr(Ch(u, 1), "()") THEN StripParens(SubSeq(u, 2, Len(u)))
    ELSE IF InStr(Ch(u, Len(u)), "()") THEN StripParens(SubSeq(u, 1, Len(u) - 1))
    ELSE u

\* re.sub(r"^[\+\-]", "", u) and re.sub(r"%$", "", u)
DropSign(u) == IF u # "" /\ InStr(Ch(u, 1), "+-") THEN SubSeq(u, 2, Len(u)) ELSE u
DropPercent(u) == IF u # "" /\ Ch(u, Len(u)) = "%" THEN SubSeq(u, 1, Len(u) - 1) ELSE u

\* lines 135-138: what is left of t to be all digits
NumericCore(t) ==
    DropPercent(DropChar(DropChar(DropSign(StripParens(DropChar(t, " "))), "."), ","))

\* runtime.py:128-139
_is_pure_numeric_like(s) ==
    /\ Strip(s) # ""
    /\ KeepChars(Strip(s), SubSeq(LowerChars, 1, 26) \o SubSeq(UpperChars, 1, 26)) = ""
    /\ KeepChars(Strip(s), "/:#") = ""
    /\ ~HyphenInWordFrom(Strip(s), 1)
    /\ NumericCore(Strip(s)) # ""
    /\ AllDigits(NumericCore(Strip(s)))

\* runtime.py:125-126
_format_num(num) == ReplaceChar(Format2f(num), ".", ",")

RECURSIVE format_numbers_everywhere(_)
\* runtime.py:141-155: the document after the pass
format_numbers_everywhere(obj) ==
    IF ~(IsDict(obj) \/ IsList(obj)) THEN obj
    ELSE [obj EXCEPT !.xs = [i \in DOMAIN obj.xs |->
            Entry(obj.xs[i].k,
                  IF IsDict(obj.xs[i].v) \/ IsList(obj.xs[i].v)
                  THEN format_numbers_everywhere(obj.xs[i].v)
                  ELSE IF /\ IsStr(obj.xs[i].v)
                          /\ _is_pure_numeric_like(obj.xs[i].v.s)
                          /\ parse_number(obj.xs[i].v).ok
                  THEN PyStr(_format_num(parse_number(obj.xs[i].v)))
                  ELSE obj.xs[i].v)]]

RECURSIVE CollapseFrom(_, _)
\* re.sub(r"\s+", " ", s) from position i
CollapseFrom(s, i) ==
    IF i > Len(s) THEN ""
    ELSE IF IsSpace(Ch(s, i)) THEN " " \o CollapseFrom(s, LStripAt(s, i))
    ELSE Ch(s, i) \o CollapseFrom(s, i + 1)

\* runtime.py:158-159
_cleanup_spaces(s) == Strip(CollapseFrom(IF IsNone(s) THEN "" ELSE Str(s), 1))

\* a string that _fix (lines 222-226) gives back as _cleanup_spaces leaves
\* it: with no space it is not textual (line 200), so the language model is
\* not asked, and under 12 characters _split_glued_caps splits nothing
PlainToken(v) == ~InStr(" ", _cleanup_spaces(v)) /\ Len(_cleanup_spaces(v)) < 12

RECURSIVE auto_fix_strings(_)
\* runtime.py:221-238, for a document whose strings are plain tokens
auto_fix_strings(obj) ==
    IF ~(IsDict(obj) \/ IsList(obj)) THEN obj
    ELSE [obj EXCEPT !.xs = [i \in DOMAIN obj.xs |->
            Entry(obj.xs[i].k,
                  IF IsStr(obj.xs[i].v) THEN PyStr(_cleanup_spaces(obj.xs[i].v))
                  ELSE auto_fix_strings(obj.xs[i].v))]]

RECURSIVE OnlyPlainTokens(_)
OnlyPlainTokens(obj) ==
    IF IsStr(obj) THEN PlainToken(obj)
    ELSE IF IsDict(obj) \/ IsList(obj) THEN \A i \in DOMAIN obj.xs : OnlyPlainTokens(obj.xs[i].v)
    ELSE TRUE

(***************************************************************************)
(* nlp/ops/builtins.py: the registered operations                          *)
(***************************************************************************)
\* what a call op(doc, step) leaves: the document, the bool returned, or
\* an exception
OpResult(d, r) == [doc |-> d, ret |-> PyBool(r), raised |-> FALSE]
OpRaised(d) == [doc |-> d, ret |-> PyNone, raised |-> TRUE]

\* any(Test(parent[key]) for parent, key in matches)
AnyMatch(doc, ms, Test(_)) == \E i \in 1..Len(ms) : Test(MatchValue(doc, ms[i]))

\* builtins.py:703-706
filter_equals(doc, step) ==
    OpResult(doc, AnyMatch(doc, find_keys(doc, DictGet(step, "column")),
                           LAMBDA v : norm(v) = norm(DictGet(step, "value"))))

\* builtins.py:708-712
filter_contains(doc, step) ==
    OpResult(doc, AnyMatch(doc, find_keys(doc, DictGet(step, "column")),
                           LAMBDA v : Contains(norm(DictGet(step, "value")), norm(v))))

\* {"<": a < b, "<=": a <= b, ">": a > b, ">=": a >= b}.get(cmpop, False)
CompareBy(a, cmpop, b) ==
    CASE cmpop = PyStr("<")  -> RatLt(a, b)
      [] cmpop = PyStr("<=") -> RatLe(a, b)
      [] cmpop = PyStr(">")  -> RatLt(b, a)
      [] cmpop = PyStr(">=") -> RatLe(b, a)
      [] OTHER -> FALSE

\* builtins.py:714-723: cmpop is step.get("op"), the key that names the
\* operation
filter_compare(doc, step) ==
    OpResult(doc, AnyMatch(doc, find_keys(doc, DictGet(step, "column")),
                           LAMBDA v : /\ parse_number(v).ok
                                      /\ parse_number(DictGet(step, "value")).ok
                                      /\ CompareBy(parse_number(v), DictGet(step, "op"),
                                                   parse_number(DictGet(step, "value")))))

\* builtins.py:725-736; step.get("range", [])
filter_between(doc, step) ==
    IF ~(IsList(Get(step, "range", PyList(<<>>))) /\ Len(Get(step, "range", PyList(<<>>)).xs) = 2)
    THEN OpResult(doc, FALSE)
    ELSE OpResult(doc, AnyMatch(doc, find_keys(doc, DictGet(step, "column")),
                    LAMBDA v : /\ parse_number(v).ok
                               /\ parse_number(DictGet(step, "range").xs[1].v).ok
                               /\ parse_number(DictGet(step, "range").xs[2].v).ok
                               /\ RatLe(parse_number(DictGet(step, "range").xs[1].v), parse_number(v))
                               /\ RatLe(parse_number(v), parse_number(DictGet(step, "range").xs[2].v))))

\* builtins.py:738-741
export_noop(doc, step) == OpResult(doc, TRUE)

(***************************************************************************)
(* builtins.py: currency_to                                                *)
(***************************************************************************)
\* the (parent, key) pairs a loop holds while it rewrites the document: a
\* pair whose parent is no longer part of the document is not live
Handle(m) == [path |-> m.path, key |-> m.key, live |-> TRUE]
Handles(ms) == [i \in DOMAIN ms |-> Handle(ms[i])]

Rebase(path, pre, new) == new \o SubSeq(path, Len(pre) + 1, Len(path))

\* the pairs after the object at `from` became the value at `to`, replacing
\* what was there
MoveHandles(hs, from, to) ==
    [j \in DOMAIN hs |->
        IF ~hs[j].live THEN hs[j]
        ELSE IF StartsWith(hs[j].path, to) THEN [hs[j] EXCEPT !.live = FALSE]
        ELSE IF StartsWith(hs[j].path, from) THEN [hs[j] EXCEPT !.path = Rebase(@, from, to)]
        ELSE hs[j]]
\* the pairs after the value at `at` was replaced by a string
DropHandles(hs, at) ==
    [j \in DOMAIN hs |->
        IF hs[j].live /\ StartsWith(hs[j].path, at) THEN [hs[j] EXCEPT !.live = FALSE] ELSE hs[j]]

KeyPath(h) == Append(h.path, PyStr(h.key))
OrigPath(h) == Append(h.path, PyStr(h.key \o "_orig"))

\* f"{float(out):.2f}".replace(".", ",")
MoneyText(x) == ReplaceChar(Format2f(x), ".", ",")

\* lines 691-692: parent[key + "_orig"] = raw; parent[key] = the new text
Audited(doc, h, x) ==
    SetKeyAt(SetKeyAt(doc, h.path, h.key \o "_orig", MatchValue(doc, h)), h.path, h.key,
             PyStr(MoneyText(x)))

\* lines 687-690: the multiplier of the amounts: float(step["rate"]) when
\* the step has a rate, else what CurrencyConverter.convert applies (1 for
\* equal codes, the rate of the tables, or an exception)
AppliedRate(step, e) ==
    IF ~IsNone(DictGet(step, "rate"))
    THEN IF IsStr(DictGet(step, "rate")) \/ IsInt(DictGet(step, "rate"))
         THEN ParseFloat(Strip(Str(DictGet(step, "rate"))))
         ELSE NoNum
    ELSE IF Lower(Str(Or(e.source, PyStr("USD")))) = Lower(Upper(Str(Or(e.target, PyStr("ARS")))))
    THEN Rat(1, 1)
    ELSE e.fx
\* str(e) of the exception
RateError(step, e) ==
    IF ~IsNone(DictGet(step, "rate"))
    THEN "could not convert string to float: " \o Repr(DictGet(step, "rate"))
    ELSE "No hay cruce disponible"

RECURSIVE ConvertHandles(_, _, _, _, _)
\* lines 681-695: the loop over the pairs of one column
ConvertHandles(doc, hs, i, rate, err) ==
    IF i > Len(hs) THEN doc
    ELSE IF ~hs[i].live THEN ConvertHandles(doc, hs, i + 1, rate, err)
    ELSE IF ~parse_number(MatchValue(doc, hs[i])).ok THEN ConvertHandles(doc, hs, i + 1, rate, err)
    ELSE IF rate.ok
    THEN ConvertHandles(Audited(doc, hs[i], RatMul(parse_number(MatchValue(doc, hs[i])), rate)),
                        MoveHandles(hs, KeyPath(hs[i]), OrigPath(hs[i])), i + 1, rate, err)
    ELSE ConvertHandles(SetKeyAt(doc, hs[i].path, hs[i].key, PyStr(err)),
                        DropHandles(hs, KeyPath(hs[i])), i + 1, rate, err)

RECURSIVE ConvertColumns(_, _, _, _, _)
\* lines 680-695: `for c in cols`, find_keys run anew for each column
ConvertColumns(doc, cols, c, rate, err) ==
    IF c > Len(cols) THEN doc
    ELSE ConvertColumns(ConvertHandles(doc, Handles(find_keys(doc, PyStr(cols[c]))), 1, rate, err),
                        cols, c + 1, rate, err)

RECURSIVE RelabelHandles(_, _, _, _)
RelabelHandles(doc, hs, i, target) ==
    IF i > Len(hs) THEN doc
    ELSE IF ~hs[i].live THEN RelabelHandles(doc, hs, i + 1, target)
    ELSE RelabelHandles(SetKeyAt(doc, hs[i].path, hs[i].key, PyStr(target)),
                        DropHandles(hs, KeyPath(hs[i])), i + 1, target)
\* for parent, key in find_keys(doc, name): parent[key] = target
Relabel(doc, name, target) == RelabelHandles(doc, Handles(find_keys(doc, name)), 1, target)

\* builtins.py:638-701; e holds what _llm_detect_target, _llm_detect_source
\* and _llm_detect_tag return and the rate of the converter
currency_to(doc, step, e) ==
    IF Truthy(e.target) /\ ~IsStr(e.target) THEN OpRaised(doc)
    ELSE IF e.cols = <<>>
    THEN OpResult(Relabel(Relabel(Relabel(doc, PyStr("moneda"), Upper(Str(Or(e.target, PyStr("ARS"))))),
                                  PyStr("currency"), Upper(Str(Or(e.target, PyStr("ARS"))))),
                          PyStr("divisa"), Upper(Str(Or(e.target, PyStr("ARS"))))), TRUE)
    ELSE OpResult(Relabel(ConvertColumns(doc, e.cols, 1, AppliedRate(step, e), RateError(step, e)),
                          e.tag, Upper(Str(Or(e.target, PyStr("ARS"))))), TRUE)

(***************************************************************************)
(* runtime.py: format_date, and format_date_op of builtins.py              *)
(***************************************************************************)
DateSeps == "./-"
IsDateSep(c) == c # "" /\ InStr(c, DateSeps)

\* re.search(r"(\d{1,4}[./\-]\d{1,2}[./\-]\d{2,4})", s) from position i: the
\* index after the match, 0 when there is none at i.  The digits before a
\* separator are a whole run, the last group takes up to four digits.
YearEnd(s, c) ==
    IF SpanEnd(s, c, DigitChars) - c < 2 THEN 0
    ELSE IF SpanEnd(s, c, DigitChars) - c > 4 THEN c + 4
    ELSE SpanEnd(s, c, DigitChars)
MiddleEnd(s, b) ==
    IF SpanEnd(s, b, DigitChars) - b \in 1..2 /\ IsDateSep(Ch(s, SpanEnd(s, b, DigitChars)))
    THEN YearEnd(s, SpanEnd(s, b, DigitChars) + 1) ELSE 0
DateLikeEnd(s, i) ==
    IF SpanEnd(s, i, DigitChars) - i \in 1..4 /\ IsDateSep(Ch(s, SpanEnd(s, i, DigitChars)))
    THEN MiddleEnd(s, SpanEnd(s, i, DigitChars) + 1) ELSE 0

RECURSIVE DateLikeFrom(_, _)
\* lines 67-68: s_try, the first match of the search, or s itself
DateLikeFrom(s, i) ==
    IF i > Len(s) THEN s
    ELSE IF DateLikeEnd(s, i) # 0 THEN SubSeq(s, i, DateLikeEnd(s, i) - 1)
    ELSE DateLikeFrom(s, i + 1)

\* lines 69-70
NumericFormats == <<"%Y-%m-%d", "%d/%m/%Y", "%d-%m-%Y", "%Y/%m/%d", "%d.%m.%Y",
                    "%d/%m/%y", "%d-%m-%y", "%y-%m-%d", "%m/%d/%Y", "%m-%d-%Y">>

\* runtime.py:53-100.  The month names of lines 79-98 find nothing: `months`
\* is the set {...} of line 79, which holds no name.
format_date(val, input_fmt, output_fmt) ==
    IF norm(val) = "" THEN PyNone
    ELSE IF /\ Truthy(input_fmt) /\ input_fmt # PyStr("infer")
            /\ IsStr(input_fmt) /\ IsStr(Or(output_fmt, PyStr("%Y-%m-%d")))
            /\ Strptime(norm(val), input_fmt.s).ok
    THEN PyStr(Strftime(Strptime(norm(val), input_fmt.s), Or(output_fmt, PyStr("%Y-%m-%d")).s))
    ELSE IF ~IsStr(Or(output_fmt, PyStr("%Y-%m-%d"))) THEN PyNone
    ELSE TryFormats(DateLikeFrom(norm(val), 1), NumericFormats, 1,
                    Or(output_fmt, PyStr("%Y-%m-%d")).s)

RECURSIVE FormatHandles(_, _, _, _, _)
\* builtins.py:605-608: the loop over the pairs of the column
FormatHandles(doc, hs, i, input_fmt, output_fmt) ==
    IF i > Len(hs) THEN doc
    ELSE IF ~hs[i].live \/ IsNone(format_date(MatchValue(doc, hs[i]), input_fmt, output_fmt))
    THEN FormatHandles(doc, hs, i + 1, input_fmt, output_fmt)
    ELSE FormatHandles(SetKeyAt(doc, hs[i].path, hs[i].key,
                                format_date(MatchValue(doc, hs[i]), input_fmt, output_fmt)),
                       DropHandles(hs, KeyPath(hs[i])), i + 1, input_fmt, output_fmt)

\* builtins.py:601-609
format_date_op(doc, step) ==
    OpResult(FormatHandles(doc, Handles(find_keys(doc, DictGet(step, "column"))), 1,
                           Or(DictGet(step, "input_fmt"), PyStr("infer")),
                           Or(DictGet(step, "output_fmt"), PyStr("%Y-%m-%d"))), TRUE)

(***************************************************************************)
(* builtins.py: convert_units.  The unit registry of pint is taken with    *)
(* the units m, cm, mm, ft, kg, g and lb; the temperatures and the         *)
(* synonyms of other units are left out                                    *)
(***************************************************************************)
_VALUE_KEYS ==
    {"valor", "value", "amount", "qty", "quantity", "medida", "measure",
     "size", "length", "weight", "mass", "cantidad", "longitud"}
_UNIT_KEYS == {"unidad", "unit", "units", "uom", "measure_unit", "unidad_medida"}

\* _UNIT_SYNONYMS, the entries of the units of the registry
_UNIT_SYNONYMS(t) ==
    CASE t \in {"meter", "meters", "metre", "metres", "metro", "metros"} -> "m"
      [] t \in {"centimetro", "centímetros", "centimetros", "centimeter", "centimeters"} -> "cm"
      [] t \in {"milimetro", "milímetros", "milimetros", "millimeter", "millimeters"} -> "mm"
      [] t \in {"pie", "pies", "foot", "feet"} -> "ft"
      [] t \in {"kilogramo", "kilogramos", "kilo", "kilos", "kilogram", "kilograms"} -> "kg"
      [] t \in {"gramo", "gramos", "gram", "grams"} -> "g"
      [] t \in {"libra", "libras", "pound", "pounds"} -> "lb"
      [] OTHER -> ""

\* builtins.py:67-75
_normalize_unit_text(u) ==
    IF _UNIT_SYNONYMS(Lower(Strip(u))) # "" THEN _UNIT_SYNONYMS(Lower(Strip(u)))
    ELSE IF _UNIT_SYNONYMS(DropChar(Lower(Strip(u)), " ")) # ""
    THEN _UNIT_SYNONYMS(DropChar(Lower(Strip(u)), " "))
    ELSE u

\* a unit of the registry: its dimension and its size in the base unit;
\* anything else is pint's UndefinedUnitError
NoUnit == [ok |-> FALSE, dim |-> "", size |-> Rat(1, 1)]
PintUnit(u) ==
    CASE u = "m"  -> [ok |-> TRUE, dim |-> "length", size |-> Rat(1, 1)]
      [] u = "cm" -> [ok |-> TRUE, dim |-> "length", size |-> Rat(1, 100)]
      [] u = "mm" -> [ok |-> TRUE, dim |-> "length", size |-> Rat(1, 1000)]
      [] u = "ft" -> [ok |-> TRUE, dim |-> "length", size |-> Rat(381, 1250)]
      [] u = "kg" -> [ok |-> TRUE, dim |-> "mass", size |-> Rat(1, 1)]
      [] u = "g"  -> [ok |-> TRUE, dim |-> "mass", size |-> Rat(1, 1000)]
      [] u = "lb" -> [ok |-> TRUE, dim |-> "mass", size |-> Rat(45359237, 100000000)]
      [] OTHER -> NoUnit

\* a pint quantity, or the exception raised instead of one
NoQuantity == [ok |-> FALSE, mag |-> NoNum, unit |-> ""]
Quantity(mag, u) ==
    IF mag.ok /\ PintUnit(u).ok THEN [ok |-> TRUE, mag |-> mag, unit |-> u] ELSE NoQuantity

\* float(text.replace(",", "."))
FloatOfText(t) == ParseFloat(ReplaceChar(Strip(t), ",", "."))

\* builtins.py:77-88; num is a str, an int or a float
_quantity_from(num, unit) ==
    IF IsStr(num) /\ InStr("/", num.s)
    THEN IF /\ FloatOfText(SubSeq(num.s, 1, IndexOf("/", num.s) - 1)).ok
            /\ FloatOfText(SubSeq(num.s, IndexOf("/", num.s) + 1, Len(num.s))).ok
            /\ FloatOfText(SubSeq(num.s, IndexOf("/", num.s) + 1, Len(num.s))).n # 0
         THEN Quantity(RatDiv(FloatOfText(SubSeq(num.s, 1, IndexOf("/", num.s) - 1)),
                              FloatOfText(SubSeq(num.s, IndexOf("/", num.s) + 1, Len(num.s)))),
                       _normalize_unit_text(Str(unit)))
         ELSE NoQuantity
    ELSE IF IsStr(num) THEN Quantity(FloatOfText(num.s), _normalize_unit_text(Str(unit)))
    ELSE Quantity(ParseFloat(num.s), _normalize_unit_text(Str(unit)))

\* the end of digits, optionally followed by [.,] and digits, from i; i when
\* there is no digit
DecimalEnd(s, i) ==
    IF SpanEnd(s, i, DigitChars) = i THEN i
    ELSE IF /\ InStr(Ch(s, SpanEnd(s, i, DigitChars)), ".,") /\ Ch(s, SpanEnd(s, i, DigitChars)) # ""
            /\ SpanEnd(s, SpanEnd(s, i, DigitChars) + 1, DigitChars) > SpanEnd(s, i, DigitChars) + 1
    THEN SpanEnd(s, SpanEnd(s, i, DigitChars) + 1, DigitChars)
    ELSE SpanEnd(s, i, DigitChars)

\* the end of the optional `\s*/\s*digits` after position i
FractionEnd(s, i) ==
    IF /\ Ch(s, SpanEnd(s, i, " ")) = "/"
       /\ DecimalEnd(s, SpanEnd(s, SpanEnd(s, i, " ") + 1, " ")) > SpanEnd(s, SpanEnd(s, i, " ") + 1, " ")
    THEN DecimalEnd(s, SpanEnd(s, SpanEnd(s, i, " ") + 1, " "))
    ELSE i

\* the position after the group `num` of _NUM_WITH_UNIT_RE in a stripped
\* text; 0 when the text does not start with a number
NumEnd(s) ==
    IF DecimalEnd(s, IF InStr(Ch(s, 1), "-+") /\ s # "" THEN 2 ELSE 1)
          = (IF InStr(Ch(s, 1), "-+") /\ s # "" THEN 2 ELSE 1)
    THEN 0
    ELSE FractionEnd(s, DecimalEnd(s, IF InStr(Ch(s, 1), "-+") /\ s # "" THEN 2 ELSE 1))

AsciiLetters == "abcdefghijklmnopqrstuvwxyzABCDEFGHIJKLMNOPQRSTUVWXYZ"
\* [\w°^/.\-\s]
UnitChars == LowerChars \o UpperChars \o DigitChars \o "_°^/.- "

\* the group `unit`, stripped: what follows the number
UnitText(s) == Strip(SubSeq(s, NumEnd(s), Len(s)))
\* _NUM_WITH_UNIT_RE.match(text): a number, then nothing or a unit that
\* starts with a letter (or with ° and a letter)
MatchesNumWithUnit(t) ==
    /\ NumEnd(Strip(t)) > 0
    /\ \/ UnitText(Strip(t)) = ""
       \/ /\ InStr(Ch(UnitText(Strip(t)), IF Ch(UnitText(Strip(t)), 1) = "°" THEN 2 ELSE 1),
                   AsciiLetters)
          /\ Ch(UnitText(Strip(t)), IF Ch(UnitText(Strip(t)), 1) = "°" THEN 2 ELSE 1) # ""
          /\ KeepChars(UnitText(Strip(t)), UnitChars) = UnitText(Strip(t))

\* builtins.py:90-105, for a value v of the document
_try_parse_quantity(v) ==
    IF ~IsStr(v) THEN NoQuantity
    ELSE IF ~MatchesNumWithUnit(v.s) THEN NoQuantity
    ELSE IF UnitText(Strip(v.s)) = "" THEN NoQuantity
    ELSE _quantity_from(PyStr(SubSeq(Strip(v.s), 1, NumEnd(Strip(v.s)) - 1)),
                        PyStr(UnitText(Strip(v.s))))

\* q.to(tgt).magnitude
ToUnit(q, tgt) == RatMul(q.mag, RatDiv(PintUnit(q.unit).size, PintUnit(tgt).size))

\* repr(round(x, 2)) of a float
FloatRepr2(x) ==
    IF Ch(Format2f(x), Len(Format2f(x))) = "0"
    THEN SubSeq(Format2f(x), 1, Len(Format2f(x)) - 1)
    ELSE Format2f(x)

\* builtins.py:142-147
_target_for_dim(dim, targets) ==
    IF IsStr(targets) THEN targets
    ELSE IF IsDict(targets) THEN DictGet(targets, dim)
    ELSE PyNone

\* `not tgt or not _is_compatible(q, tgt)` is false
TargetFits(q, tgt) ==
    /\ Truthy(tgt)
    /\ PintUnit(Str(tgt)).ok
    /\ PintUnit(Str(tgt)).dim = PintUnit(q.unit).dim

\* next((k for k in keys if k.lower() in _UNIT_KEYS), None), "" for None
RECURSIVE FirstUnitKeyFrom(_, _)
FirstUnitKeyFrom(es, i) ==
    IF i > Len(es) THEN ""
    ELSE IF Lower(es[i].k) \in _UNIT_KEYS THEN es[i].k
    ELSE FirstUnitKeyFrom(es, i + 1)
FirstUnitKey(d) == FirstUnitKeyFrom(d.xs, 1)

\* what a walk leaves: the node, the fields converted, the errors reported
Walked(node, changed, errs) == [node |-> node, changed |-> changed, errs |-> errs]

\* _pair_allowed, and the filter of the embedded strings; fields is the set
\* fields_lc, empty for None
FieldAllowed(k, fields) == fields = {} \/ Lower(k) \in fields

RECURSIVE WalkPairs(_, _, _, _, _, _)
RECURSIVE WalkPairQ(_, _, _, _, _, _, _)
RECURSIVE WalkPairT(_, _, _, _, _, _, _, _)
\* builtins.py:297-327: the value+unit pairs of a dict
WalkPairs(d, i, targets, fields, changed, errs) ==
    IF i > Len(d.xs) THEN Walked(d, changed, errs)
    ELSE IF \/ Lower(d.xs[i].k) \notin _VALUE_KEYS
            \/ FirstUnitKey(d) = ""
            \/ ~(FieldAllowed(d.xs[i].k, fields) \/ FieldAllowed(FirstUnitKey(d), fields))
            \/ IsNone(DictGet(d, FirstUnitKey(d)))
            \/ d.xs[i].v.t \notin {"int", "float", "str"}
    THEN WalkPairs(d, i + 1, targets, fields, changed, errs)
    ELSE WalkPairQ(d, i, targets, fields, changed, errs,
                   _quantity_from(d.xs[i].v, DictGet(d, FirstUnitKey(d))))
\* lines 306-310: the quantity q of the pair, or the error reported
WalkPairQ(d, i, targets, fields, changed, errs, q) ==
    IF ~q.ok THEN WalkPairs(d, i + 1, targets, fields, changed, errs + 1)
    ELSE WalkPairT(d, i, targets, fields, changed, errs, q,
                   _target_for_dim(PintUnit(q.unit).dim, targets))
\* lines 311-327: the conversion to the target tgt
WalkPairT(d, i, targets, fields, changed, errs, q, tgt) ==
    IF ~TargetFits(q, tgt) THEN WalkPairs(d, i + 1, targets, fields, changed, errs)
    ELSE WalkPairs(DictSet(DictSet(d, d.xs[i].k, PyFloat(FloatRepr2(ToUnit(q, Str(tgt))))),
                           FirstUnitKey(d), tgt),
                   i + 1, targets, fields, changed + 1, errs)

RECURSIVE WalkNode(_, _, _, _, _)
RECURSIVE WalkItems(_, _, _, _, _, _)
RECURSIVE WalkChild(_, _, _, _, _)
RECURSIVE WalkItemQ(_, _, _, _, _, _, _)
RECURSIVE WalkItemT(_, _, _, _, _, _, _, _)
\* builtins.py:328-354: the values of a dict (keyed) or the items of a list
WalkItems(o, i, targets, fields, changed, errs) ==
    IF i > Len(o.xs) THEN Walked(o, changed, errs)
    ELSE IF IsDict(o.xs[i].v) \/ IsList(o.xs[i].v)
    THEN WalkChild(o, i, targets, fields, WalkNode(o.xs[i].v, targets, fields, changed, errs))
    ELSE IF IsList(o) \/ ~FieldAllowed(o.xs[i].k, fields)
    THEN WalkItems(o, i + 1, targets, fields, changed, errs)
    ELSE WalkItemQ(o, i, targets, fields, changed, errs, _try_parse_quantity(o.xs[i].v))
\* the walk goes on after the child at i was walked, leaving r
WalkChild(o, i, targets, fields, r) ==
    WalkItems([o EXCEPT !.xs[i].v = r.node], i + 1, targets, fields, r.changed, r.errs)
WalkItemQ(o, i, targets, fields, changed, errs, q) ==
    IF ~q.ok THEN WalkItems(o, i + 1, targets, fields, changed, errs)
    ELSE WalkItemT(o, i, targets, fields, changed, errs, q,
                   _target_for_dim(PintUnit(q.unit).dim, targets))
WalkItemT(o, i, targets, fields, changed, errs, q, tgt) ==
    IF ~TargetFits(q, tgt) THEN WalkItems(o, i + 1, targets, fields, changed, errs)
    ELSE WalkItems([o EXCEPT !.xs[i].v = PyStr(Format2f(ToUnit(q, Str(tgt))) \o " " \o Str(tgt))],
                   i + 1, targets, fields, changed + 1, errs)

\* the embedded strings of a dict, after its pairs left r
WalkValues(r, targets, fields) == WalkItems(r.node, 1, targets, fields, r.changed, r.errs)

\* _walk of _convert_with_pint
WalkNode(o, targets, fields, changed, errs) ==
    IF IsDict(o) THEN WalkValues(WalkPairs(o, 1, targets, fields, changed, errs), targets, fields)
    ELSE IF IsList(o) THEN WalkItems(o, 1, targets, fields, changed, errs)
    ELSE Walked(o, changed, errs)

\* builtins.py:284-359
_convert_with_pint(doc, targets, fields) == WalkNode(doc, targets, fields, 0, 0)

RECURSIVE CandKeys(_)
\* the last path elements, lowered, of _detect_candidates(doc)
CandKeys(o) ==
    IF IsDict(o)
    THEN {Lower(o.xs[i].k) : i \in {j \in DOMAIN o.xs :
               \/ Lower(o.xs[j].k) \in _VALUE_KEYS /\ FirstUnitKey(o) # ""
               \/ IsStr(o.xs[j].v) /\ MatchesNumWithUnit(o.xs[j].v.s)}}
         \cup UNION {CandKeys(o.xs[i].v) : i \in DOMAIN o.xs}
    ELSE IF IsList(o) THEN UNION {CandKeys(o.xs[i].v) : i \in DOMAIN o.xs}
    ELSE {}

\* an entry of the log of calls: the function and the document it was given
CallOf(fn, d) == [fn |-> fn, doc |-> d]

ImperialTargets ==
    PyDict(<<Entry("length", PyStr("ft")), Entry("mass", PyStr("lb")), Entry("volume", PyStr("gal")),
             Entry("pressure", PyStr("psi")), Entry("area", PyStr("ft^2")),
             Entry("temperature", PyStr("degF")), Entry("speed", PyStr("mph"))>>)
MetricTargets ==
    PyDict(<<Entry("length", PyStr("m")), Entry("mass", PyStr("kg")), Entry("volume", PyStr("L")),
             Entry("pressure", PyStr("bar")), Entry("area", PyStr("m^2")),
             Entry("temperature", PyStr("degC")), Entry("speed", PyStr("km/h"))>>)

\* (step.get("target_unit") or "").strip() raises for a number, a list, ...
TargetUnitRaises(step) == Truthy(DictGet(step, "target_unit")) /\ ~IsStr(DictGet(step, "target_unit"))
HumanTarget(step) == Strip(Str(Or(DictGet(step, "target_unit"), PyStr(""))))

\* builtins.py:118-140; pint tells whether the unit registry is there
_targets_from_step(step, pint) ==
    IF Truthy(DictGet(step, "to")) THEN DictGet(step, "to")
    ELSE IF Lower(HumanTarget(step)) \in {"imperial", "imperiales", "us", "usa"} THEN ImperialTargets
    ELSE IF Lower(HumanTarget(step)) \in {"metric", "si", "mks", "internacional"} THEN MetricTargets
    ELSE IF HumanTarget(step) # "" /\ pint /\ PintUnit(_normalize_unit_text(HumanTarget(step))).ok
    THEN PyDict(<<Entry(PintUnit(_normalize_unit_text(HumanTarget(step))).dim,
                        PyStr(_normalize_unit_text(HumanTarget(step))))>>)
    ELSE PyDict(<<>>)

\* lines 378-383: the fields of the step, a list
ListOf(f) == IF IsStr(f) THEN PyList(<<f>>) ELSE f
StepFields(step) ==
    ListOf(IF Truthy(Or(DictGet(step, "fields"), DictGet(step, "columns")))
           THEN Or(DictGet(step, "fields"), DictGet(step, "columns"))
           ELSE IF Truthy(DictGet(step, "column")) THEN PyList(<<DictGet(step, "column")>>)
           ELSE PyList(<<>>))

RECURSIVE AnyCandidate(_, _, _)
\* any(f.lower() in cand_keys for f in fields): "yes", "no", or "raise" at
\* a field that is no str
AnyCandidate(fs, i, cands) ==
    IF i > Len(fs) THEN "no"
    ELSE IF ~IsStr(fs[i]) THEN "raise"
    ELSE IF Lower(fs[i].s) \in cands THEN "yes"
    ELSE AnyCandidate(fs, i + 1, cands)

\* float(x) raises
FloatRaises(x) == ~((IsStr(x) /\ ParseFloat(Strip(x.s)).ok) \/ x.t \in {"int", "float", "bool"})
\* int(x) raises
IntRaises(x) ==
    ~((IsStr(x) /\ ParseFloat(Strip(x.s)).ok /\ ~InStr(".", x.s)) \/ x.t \in {"int", "float", "bool"})

\* it["to"] and it["from"] are texts
ConvertedItemOk(it) == IsDict(it) /\ IsStr(DictGet(it, "to")) /\ IsStr(DictGet(it, "from"))

\* lines 274-280 and 431-459: the reply parses to a dict with a dict "doc"
\* and a dict "report" whose "converted" are dicts with texts "from" and "to"
ReplyAccepted(reply) ==
    /\ IsDict(reply) /\ HasKey(reply, "doc") /\ HasKey(reply, "report")
    /\ IsDict(DictGet(reply, "doc"))
    /\ IsDict(DictGet(reply, "report"))
    /\ \/ ~HasKey(DictGet(reply, "report"), "columns_detected")
       \/ ~Truthy(DictGet(DictGet(reply, "report"), "columns_detected"))
       \/ ~IterRaises(DictGet(DictGet(reply, "report"), "columns_detected"))
    /\ \/ ~HasKey(DictGet(reply, "report"), "converted")
       \/ /\ ~IterRaises(DictGet(DictGet(reply, "report"), "converted"))
          /\ \A i \in DOMAIN IterValues(DictGet(DictGet(reply, "report"), "converted")) :
                ConvertedItemOk(IterValues(DictGet(DictGet(reply, "report"), "converted"))[i])

\* what convert_units leaves: the document, the functions of the language
\* model it called with the document they were given, the outcome of the
\* deterministic pass
UnitsResult(doc, raised, asked, changed, errs) ==
    [doc |-> doc, ret |-> IF raised THEN PyNone ELSE PyBool(TRUE), raised |-> raised,
     asked |-> asked, changed |-> changed, errs |-> errs]

\* lines 421-465: after the deterministic pass left `w`
AfterPint(w, step, e, asked) ==
    IF w.changed > 0 /\ w.errs = 0 THEN UnitsResult(w.node, FALSE, asked, w.changed, w.errs)
    ELSE IF \/ FloatRaises(Get(step, "temperature", PyFloat("0.1")))
            \/ IntRaises(Get(step, "max_chars", PyInt(12000)))
    THEN UnitsResult(w.node, FALSE, asked, w.changed, w.errs)
    ELSE UnitsResult(IF ReplyAccepted(e.reply) THEN DictGet(e.reply, "doc") ELSE w.node, FALSE,
                     Append(asked, CallOf("_run_llm_convert", w.node)), w.changed, w.errs)

\* lines 411-419: the deterministic pass
PintPass(doc, targets, fields, e) ==
    IF ~e.pint THEN Walked(doc, 0, 1)
    ELSE IF ~Truthy(targets) THEN Walked(doc, 0, 0)
    ELSE IF \E i \in DOMAIN fields : ~IsStr(fields[i]) THEN Walked(doc, 0, 1)
    ELSE _convert_with_pint(doc, targets, {Lower(fields[i].s) : i \in DOMAIN fields})

\* lines 403-409: the targets, asked to the language model when the step
\* gives a target that is no unit
GuessAsked(step, e) ==
    ~Truthy(_targets_from_step(step, e.pint)) /\ HumanTarget(step) # ""
\* builtins.py:203-228: the reply kept with the units the registry knows,
\* None when nothing is left
_llm_guess_targets(e) ==
    IF ~IsDict(e.guess) \/ ~e.pint THEN PyNone
    ELSE IF \A i \in DOMAIN e.guess.xs : ~PintUnit(Str(e.guess.xs[i].v)).ok THEN PyNone
    ELSE PyDict(SelectSeq([i \in DOMAIN e.guess.xs |->
                              Entry(e.guess.xs[i].k, PyStr(Str(e.guess.xs[i].v)))],
                          LAMBDA en : PintUnit(en.v.s).ok))
TargetsOf(step, e) ==
    IF GuessAsked(step, e) /\ Truthy(_llm_guess_targets(e))
    THEN _llm_guess_targets(e)
    ELSE _targets_from_step(step, e.pint)

\* builtins.py:362-465; e holds whether pint is installed and the replies
\* of the language model
convert_units(doc, step, e) ==
    IF TargetUnitRaises(step) \/ IterRaises(StepFields(step))
    THEN UnitsResult(doc, TRUE, <<>>, 0, 0)
    ELSE IF AnyCandidate(IterValues(StepFields(step)), 1, CandKeys(doc)) = "raise"
    THEN UnitsResult(doc, TRUE, <<>>, 0, 0)
    ELSE AfterPint(PintPass(doc, TargetsOf(step, e),
                            IF AnyCandidate(IterValues(StepFields(step)), 1, CandKeys(doc)) = "yes"
                            THEN IterValues(StepFields(step)) ELSE <<>>, e),
                   step, e,
                   IF GuessAsked(step, e) THEN <<CallOf("_llm_guess_targets", doc)>> ELSE <<>>)

(***************************************************************************)
(* Calls of the registered operations and of find_keys: one call           *)
(* fn(odoc, ostep) per behaviour, with the replies of the language model   *)
(* and of the rates service in env                                         *)
(***************************************************************************)
\* {"Descripción": "Camión", "items": [{"descripcion": "eje", "Total ": "10"},
\*  {"DESCRIPCION": "rueda", "detalle": {"descripción": "goma", "total": "5"}}],
\*  "total": "1.234,50", "moneda": "USD", "fecha": "15/03/2024"}
Doc_nested ==
    PyDict(<<Entry("Descripción", PyStr("Camión")),
             Entry("items", PyList(<<
                 PyDict(<<Entry("descripcion", PyStr("eje")), Entry("Total ", PyStr("10"))>>),
                 PyDict(<<Entry("DESCRIPCION", PyStr("rueda")),
                          Entry("detalle", PyDict(<<Entry("descripción", PyStr("goma")),
                                                    Entry("total", PyStr("5"))>>))>>)>>)),
             Entry("total", PyStr("1.234,50")),
             Entry("moneda", PyStr("USD")),
             Entry("fecha", PyStr("15/03/2024"))>>)

\* {"total": "100", "moneda": "EUR", "precio": {"valor": "7,5", "total": "8"}}
Doc_money ==
    PyDict(<<Entry("total", PyStr("100")),
             Entry("moneda", PyStr("EUR")),
             Entry("precio", PyDict(<<Entry("valor", PyStr("7,5")), Entry("total", PyStr("8"))>>))>>)

\* {"precio": {"precio": "10"}, "currency": "usd"}
Doc_priced ==
    PyDict(<<Entry("precio", PyDict(<<Entry("precio", PyStr("10"))>>)),
             Entry("currency", PyStr("usd"))>>)

OpsDocs == { Doc_nested, Doc_money, Doc_priced, Doc_monto50, Doc_monto150, Doc_cliente, Doc_fecha, Doc_total150 }

\* the names find_keys is asked for
FindNames == { "Descripcion", "descripción", "total", " TOTAL", "items", "monto", "ausente" }

FilterSteps ==
    { Filter("filter_equals", "cliente", PyStr("acme")),
      Filter("filter_equals", "cliente", PyStr("ACME")),
      Filter("filter_equals", "fecha", PyStr("")),
      Filter("filter_equals", "descripcion", PyStr("goma")),
      Filter("filter_contains", "Descripcion", PyStr("CAMION")),
      Filter("filter_contains", "descripcion", PyStr("Cam")),
      Filter("filter_contains", "fecha", PyNone),
      Filter("filter_compare", "monto", PyStr("100")),
      Filter(">", "monto", PyStr("100")),
      Filter("<=", "total", PyStr("10")),
      Between("fecha", "2024-01-01", "2024-12-31"),
      Between("fecha", "01/01/2024", "31/12/2024"),
      Between("monto", "100", "200"),
      Between("total", "5", "10"),
      Step("filter_between", <<Entry("column", PyStr("monto"))>>),
      Step("export", <<Entry("format", PyStr("csv"))>>) }

MoneyDocs == { Doc_nested, Doc_money, Doc_priced, Doc_cliente }

\* {"largo": "12 codos"}
Doc_codos == PyDict(<<Entry("largo", PyStr("12 codos"))>>)
\* {"pieza": "eje", "largo": "120 cm", "peso": "3 kg",
\*  "medida": {"valor": "150", "unidad": "centimetros"}}
Doc_pieza ==
    PyDict(<<Entry("pieza", PyStr("eje")),
             Entry("largo", PyStr("120 cm")),
             Entry("peso", PyStr("3 kg")),
             Entry("medida", PyDict(<<Entry("valor", PyStr("150")),
                                      Entry("unidad", PyStr("centimetros"))>>))>>)
\* {"largo": "120 cm", "medida": {"valor": "n/d", "unidad": "cm"}}
Doc_sin_valor ==
    PyDict(<<Entry("largo", PyStr("120 cm")),
             Entry("medida", PyDict(<<Entry("valor", PyStr("n/d")),
                                      Entry("unidad", PyStr("cm"))>>))>>)

UnitDocs == { Doc_codos, Doc_pieza, Doc_sin_valor, Doc_cliente }

UnitSteps ==
    { Step("convert_units", <<Entry("to", PyDict(<<Entry("length", PyStr("m"))>>))>>),
      Step("convert_units", <<Entry("target_unit", PyStr("metric"))>>),
      Step("convert_units", <<Entry("target_unit", PyStr("Zentimeter"))>>),
      Step("convert_units", <<Entry("target_unit", PyStr("metros")),
                              Entry("fields", PyList(<<PyStr("Largo")>>))>>),
      Step("convert_units", <<Entry("to", PyDict(<<Entry("length", PyStr("m"))>>)),
                              Entry("temperature", PyStr("tibio"))>>),
      Step("convert_units", <<Entry("target_unit", PyInt(5))>>) }

\* what the semantic converter answers, parsed: nothing that parses; the
\* one-field document converted, with its report; a document with other
\* keys; a list for the document; a list for the report; a report whose
\* "converted" are no dicts
ConverterReplies ==
    { PyNone,
      PyDict(<<Entry("doc", PyDict(<<Entry("largo", PyStr("5.49 m"))>>)),
               Entry("report", PyDict(<<
                   Entry("converted", PyList(<<PyDict(<<
                       Entry("path", PyList(<<PyStr("largo")>>)),
                       Entry("from", PyStr("12 codos")),
                       Entry("to", PyStr("5.49 m"))>>)>>)),
                   Entry("errors", PyList(<<>>)),
                   Entry("columns_detected", PyList(<<PyStr("largo")>>))>>))>>),
      PyDict(<<Entry("doc", PyDict(<<Entry("largo_m", PyFloat("1.2"))>>)),
               Entry("report", PyDict(<<>>))>>),
      PyDict(<<Entry("doc", PyList(<<PyStr("1.2 m")>>)), Entry("report", PyDict(<<>>))>>),
      PyDict(<<Entry("doc", PyDict(<<Entry("largo", PyStr("1.2 m"))>>)),
               Entry("report", PyList(<<>>))>>),
      PyDict(<<Entry("doc", PyDict(<<Entry("largo", PyStr("1.2 m"))>>)),
               Entry("report", PyDict(<<Entry("converted", PyList(<<PyStr("largo")>>))>>))>>) }

CurrencySteps ==
    { Step("currency_to", <<Entry("target", PyStr("USD"))>>),
      Step("currency_to", <<Entry("rate", PyStr("2"))>>),
      Step("currency_to", <<Entry("rate", PyStr("dos"))>>) }

\* the texts of a date field: dates in the form YYYY-MM-DD, dates written
\* otherwise, and texts that hold no date
DateTexts ==
    { "2024-01-05", "2024-02-29", "1000-12-31", "9999-12-31", "0999-01-05", "0001-01-01",
      "2023-02-29", "2024-13-01", "0000-01-01", "2024-1-5", " 2024-01-05", "05/01/2024",
      "31/12/24", "12.03.2024", "Factura 2024-01-05", "12024-01-05", "sin fecha", "" }
DateDocs ==
    {PyDict(<<Entry("fecha", PyStr(t))>>) : t \in DateTexts}
    \cup {PyDict(<<Entry("Fecha", PyStr(t)),
                   Entry("items", PyList(<<PyDict(<<Entry("fecha", PyStr("05/01/2024"))>>)>>))>>) :
             t \in DateTexts}
    \cup {PyDict(<<Entry("fecha", PyDict(<<Entry("fecha", PyStr(t))>>))>>) : t \in DateTexts}
DateSteps ==
    { Step("format_date", <<Entry("column", PyStr("fecha"))>>),
      Step("format_date", <<Entry("column", PyStr("fecha")), Entry("input_fmt", PyStr("infer")),
                            Entry("output_fmt", PyStr("%Y-%m-%d"))>>),
      Step("format_date", <<Entry("column", PyStr("fecha")), Entry("input_fmt", PyStr("%d/%m/%Y"))>>),
      Step("format_date", <<Entry("column", PyStr("fecha")), Entry("output_fmt", PyStr("%d/%m/%Y"))>>),
      Step("format_date", <<Entry("column", PyStr("fecha")), Entry("output_fmt", PyInt(5))>>) }

FilterFns == { "filter_equals", "filter_contains", "filter_compare", "filter_between", "export" }

\* fn(odoc, ostep) is about to run
Calling(fn) == opc = fn
\* the call has returned r
OpReturns(r) ==
    /\ odoc' = r.doc
    /\ oret' = r.ret
    /\ opc' = IF r.raised THEN "raised" ELSE "returned"

Op_find_keys ==
    /\ Calling("find_keys")
    /\ oret' = find_keys(odoc, ostep)
    /\ opc' = "found"
    /\ olog' = Append(olog, CallOf("find_keys", odoc))
    /\ UNCHANGED <<odoc, ostep, env>>
    /\ UNCHANGED <<execVars, compVars, rateVars, unitVars, spacyVars>>

Op_filter_equals ==
    /\ Calling("filter_equals")
    /\ OpReturns(filter_equals(odoc, ostep))
    /\ olog' = Append(olog, CallOf("filter_equals", odoc))
    /\ UNCHANGED <<ostep, env>>
    /\ UNCHANGED <<execVars, compVars, rateVars, unitVars, spacyVars>>

Op_filter_contains ==
    /\ Calling("filter_contains")
    /\ OpReturns(filter_contains(odoc, ostep))
    /\ olog' = Append(olog, CallOf("filter_contains", odoc))
    /\ UNCHANGED <<ostep, env>>
    /\ UNCHANGED <<execVars, compVars, rateVars, unitVars, spacyVars>>

Op_filter_compare ==
    /\ Calling("filter_compare")
    /\ OpReturns(filter_compare(odoc, ostep))
    /\ olog' = Append(olog, CallOf("filter_compare", odoc))
    /\ UNCHANGED <<ostep, env>>
    /\ UNCHANGED <<execVars, compVars, rateVars, unitVars, spacyVars>>

Op_filter_between ==
    /\ Calling("filter_between")
    /\ OpReturns(filter_between(odoc, ostep))
    /\ olog' = Append(olog, CallOf("filter_between", odoc))
    /\ UNCHANGED <<ostep, env>>
    /\ UNCHANGED <<execVars, compVars, rateVars, unitVars, spacyVars>>

Op_currency_to ==
    /\ Calling("currency_to")
    /\ OpReturns(currency_to(odoc, ostep, env))
    /\ olog' = Append(olog, CallOf("currency_to", odoc))
    /\ UNCHANGED <<ostep, env>>
    /\ UNCHANGED <<execVars, compVars, rateVars, unitVars, spacyVars>>

Op_convert_units ==
    /\ Calling("convert_units")
    /\ OpReturns(convert_units(odoc, ostep, env))
    /\ olog' = Append(olog, CallOf("convert_units", odoc)) \o convert_units(odoc, ostep, env).asked
    /\ UNCHANGED <<ostep, env>>
    /\ UNCHANGED <<execVars, compVars, rateVars, unitVars, spacyVars>>

\* format_date_op(odoc, ostep); a plan holds the step two times, so the
\* call is made once more on the document the first call left
Op_format_date ==
    /\ Calling("format_date")
    /\ odoc' = format_date_op(odoc, ostep).doc
    /\ oret' = format_date_op(odoc, ostep).ret
    /\ opc' = IF olog = <<>> THEN "format_date" ELSE "returned"
    /\ olog' = Append(olog, CallOf("format_date", odoc))
    /\ UNCHANGED <<ostep, env>>
    /\ UNCHANGED <<execVars, compVars, rateVars, unitVars, spacyVars>>

Op_export ==
    /\ Calling("export")
    /\ OpReturns(export_noop(odoc, ostep))
    /\ olog' = Append(olog, CallOf("export", odoc))
    /\ UNCHANGED <<ostep, env>>
    /\ UNCHANGED <<execVars, compVars, rateVars, unitVars, spacyVars>>

InitOps ==
    /\ ureg = <<>> /\ uw = <<>>
    /\ raw_text = "" /\ intents = {} /\ slots = <<>> /\ spacy_plan = <<>> /\ report = <<>> /\ spc = "idle"
    /\ tags_or_list = PyNone /\ plan = <<>> /\ docs = <<>> /\ di = 1 /\ si = 1
    /\ keep = TRUE /\ out = <<>> /\ epc = "idle" /\ applied = <<>>
    /\ text = PyNone /\ raw = PyNone /\ plan_llm = <<>> /\ plan_h = <<>>
    /\ final_plan = <<>> /\ meta = PyNone /\ cpc = "idle" /\ chat = "none"
    /\ names = <<>> /\ files = <<>> /\ now = 0 /\ calls = <<>> /\ remote = <<>>
    /\ reqlog = <<>>
    /\ \/ opc = "find_keys" /\ odoc \in OpsDocs /\ ostep \in {PyStr(n) : n \in FindNames}
       \/ opc \in FilterFns /\ odoc \in OpsDocs /\ ostep \in FilterSteps
       \/ opc = "currency_to" /\ odoc \in MoneyDocs /\ ostep \in CurrencySteps
       \/ opc = "convert_units" /\ odoc \in UnitDocs /\ ostep \in UnitSteps
       \/ opc = "format_date" /\ odoc \in DateDocs /\ ostep \in DateSteps
    /\ oret = PyNone
    /\ IF opc = "currency_to"
       THEN env \in [target : {PyStr("usd"), PyNone, PyInt(5)},
                     cols   : {<<>>, <<"total">>, <<"Total", "total">>, <<"monto", "precio">>},
                     source : {PyNone, PyStr("USD"), PyStr("EUR")},
                     tag    : {PyNone, PyStr("moneda")},
                     fx     : {Rat(3, 2), NoNum}]
       ELSE IF opc = "convert_units"
       THEN env \in [pint  : BOOLEAN,
                     guess : {PyNone, PyDict(<<Entry("length", PyStr("cm")),
                                               Entry("mass", PyStr("arrobas"))>>)},
                     reply : ConverterReplies]
       ELSE env = <<>>
    /\ olog = <<>>

OpsNext ==
    \/ Op_find_keys
    \/ Op_currency_to
    \/ Op_convert_units
    \/ Op_filter_equals
    \/ Op_filter_contains
    \/ Op_filter_compare
    \/ Op_filter_between
    \/ Op_format_date
    \/ Op_export

SpecOps == InitOps /\ [][OpsNext]_vars

(***************************************************************************)
(* Properties of the filters                                               *)
(***************************************************************************)
\* C13: with column monto, operator > and value 100, over
\* [{"monto": "50"}, {"monto": "150"}] only the second document is left,
\* whether the step is the literal of the scenario or a step named
\* filter_compare.
C13_CompareScenario ==
    (/\ epc = "done"
     /\ tags_or_list = PyList(<<Doc_monto50, Doc_monto150>>)
     /\ plan \in { Plan_compare_literal, << Filter("filter_compare", "monto", PyStr("100")) >> })
        => Returned = << Doc_monto150 >>

\* C14: filter_equals with column cliente and value "acme" keeps
\* {"cliente": "ACME"}, and a value that differs from the field only by an
\* accent or by case ("dolar", "DOL" against "Dólar") keeps the document too.
C14_FoldedComparison ==
    epc = "done" =>
        /\ (tags_or_list = Doc_cliente
            /\ plan = << Filter("filter_equals", "cliente", PyStr("acme")) >>) => Len(out) = 1
        /\ (tags_or_list = Doc_total150
            /\ plan \in { << Filter("filter_equals", "moneda", PyStr("dolar")) >>,
                          << Filter("filter_contains", "moneda", PyStr("DOL")) >> }) => Len(out) = 1

\* the filter operations
FilterOps == {"filter_equals", "filter_contains", "filter_compare", "filter_between"}

\* C15: a document in which the column of a filter step is found neither by
\* name nor at the place the column stands for is dropped.
C15_AbsentFieldDropped ==
    (/\ epc = "done"
     /\ IsDict(tags_or_list)
     /\ Len(plan) = 1
     /\ DictGet(plan[1], "op").s \in FilterOps
     /\ find_keys(tags_or_list, DictGet(plan[1], "column")) = <<>>
     /\ IsNone(_get_value_by_path(tags_or_list, _get_path_for_column(DictGet(plan[1], "column")))))
        => out = <<>>

\* C16: a returned filter_between call with a two-element range keeps the
\* document exactly when some value of the column lies in the range, the
\* three being compared as dates when all three parse as dates and as
\* numbers otherwise; so {"fecha": "15/03/2024"} is kept for the range
\* 2024-01-01 .. 2024-12-31.
C16_DatesBeforeNumbers ==
    (/\ opc = "returned"
     /\ olog[1].fn = "filter_between"
     /\ IsList(DictGet(ostep, "range"))
     /\ Len(DictGet(ostep, "range").xs) = 2)
        => oret = PyBool(AnyMatch(odoc, find_keys(odoc, DictGet(ostep, "column")),
                           LAMBDA v : BetweenOk(v, DictGet(ostep, "range").xs[1].v,
                                                DictGet(ostep, "range").xs[2].v)))

(***************************************************************************)
(* Properties of find_keys                                                 *)
(***************************************************************************)
RECURSIVE PairsIn(_, _)
\* every (container, key) pair of a document: the dicts at any depth of
\* nested dicts and lists, each with each of its keys
PairsIn(o, path) ==
    IF IsDict(o)
    THEN {KeyMatch(path, o.xs[i].k) : i \in DOMAIN o.xs}
         \cup UNION {PairsIn(o.xs[i].v, Append(path, PyStr(o.xs[i].k))) : i \in DOMAIN o.xs}
    ELSE IF IsList(o)
    THEN UNION {PairsIn(o.xs[i].v, Append(path, PyInt(i - 1))) : i \in DOMAIN o.xs}
    ELSE {}

\* case- and diacritic-folding
Fold(s) == Lower(StripMarks(s))
\* the same after removal of the surrounding whitespace
FoldTrim(s) == Strip(Fold(s))

MatchSet(ms) == {ms[i] : i \in DOMAIN ms}
NoRepeats(ms) == \A i, j \in DOMAIN ms : ms[i] = ms[j] => i = j

\* C17 as stated: find_keys returns exactly the pairs whose key equals the
\* name after case- and diacritic-folding.
C17_FoldedKeysExactly ==
    opc = "found" =>
        MatchSet(oret) = {m \in PairsIn(odoc, <<>>) : Fold(m.key) = Fold(ostep.s)}

\* C17, amended: find_keys returns, each once, exactly the pairs at any depth
\* whose key equals the name after case- and diacritic-folding and removal
\* of surrounding whitespace; any name that folds to the same text yields
\* the identical list.
C17_FoldedTrimmedKeysExactly ==
    opc = "found" =>
        /\ MatchSet(oret) = {m \in PairsIn(odoc, <<>>) : FoldTrim(m.key) = FoldTrim(ostep.s)}
        /\ NoRepeats(oret)
        /\ \A n \in FindNames :
              FoldTrim(n) = FoldTrim(ostep.s) => find_keys(odoc, PyStr(n)) = oret

\* "Descripcion" finds the four spellings of the key in the nested document,
\* two of them inside the line items
C17_Witness ==
    /\ opc = "found"
    /\ odoc = Doc_nested
    /\ ostep = PyStr("Descripcion")
    /\ Len(oret) = 4
    /\ oret = find_keys(odoc, PyStr("descripción"))

(***************************************************************************)
(* Batches of execute_plan                                                 *)
(***************************************************************************)
\* the branch of the step loop a step goes to
ApplyStep(doc, step) ==
    CASE OpOf(step) = PyStr("rename_columns")   -> Branch_rename_columns(doc, step)
      [] OpOf(step) = PyStr("format_date")      -> Branch_format_date(doc, step)
      [] OpOf(step) = PyStr("translate_values") -> Branch_translate_values(doc, step)
      [] OpOf(step) = PyStr("convert_units")    -> Branch_convert_units(doc, step)
      [] OpOf(step) = PyStr("filter_equals")    -> Branch_filter_equals(doc, step)
      [] OpOf(step) = PyStr("filter_contains")  -> Branch_filter_contains(doc, step)
      [] OpOf(step) = PyStr("filter_compare")   -> Branch_filter_compare(doc, step)
      [] OpOf(step) = PyStr("filter_between")   -> Branch_filter_between(doc, step)
      [] OpOf(step) = PyStr("currency_to")      -> Branch_currency_to(doc, step)
      [] OpOf(step) = PyStr("export")           -> Branch_export(doc, step)
      [] OTHER -> Branch_unknown(doc, step)

RECURSIVE RunAloneFrom(_, _, _)
\* the outcome of the plan for a document that is the whole input: its final
\* content, whether it is returned, whether the call raises
RunAloneFrom(doc, p, i) ==
    IF i > Len(p) THEN StepResult(doc, TRUE, FALSE)
    ELSE IF ApplyStep(doc, p[i]).raised \/ ~ApplyStep(doc, p[i]).keep
    THEN ApplyStep(doc, p[i])
    ELSE RunAloneFrom(ApplyStep(doc, p[i]).doc, p, i + 1)
RunAlone(doc, p) == RunAloneFrom(doc, p, 1)

\* the documents of the input, as they were given
GivenDocs ==
    IF IsDict(tags_or_list) THEN <<tags_or_list>>
    ELSE IF IsList(tags_or_list) THEN OnlyDicts(tags_or_list.xs, 1)
    ELSE <<>>

IsReturned(d) == \E j \in 1..Len(out) : out[j] = d

\* C18: when a call of execute_plan has ended, each document that the plan
\* handles without error when it is alone has, in the batch, the outcome it
\* has alone: the same final content, returned exactly when it is returned
\* alone, whatever the other documents are.
C18_BatchIndependence ==
    epc \in {"done", "raised"} =>
        \A d \in 1..Len(GivenDocs) :
            ~RunAlone(GivenDocs[d], plan).raised =>
                /\ epc = "done"
                /\ docs[d] = RunAlone(GivenDocs[d], plan).doc
                /\ IsReturned(d) <=> RunAlone(GivenDocs[d], plan).keep

\* the same for the calls that return
C18_BatchIndependenceOfReturns ==
    epc = "done" =>
        \A d \in 1..Len(GivenDocs) :
            /\ ~RunAlone(GivenDocs[d], plan).raised
            /\ docs[d] = RunAlone(GivenDocs[d], plan).doc
            /\ IsReturned(d) <=> RunAlone(GivenDocs[d], plan).keep

(***************************************************************************)
(* Properties of currency_to                                               *)
(***************************************************************************)
\* the fields whose magnitude a currency_to call converts: the pairs of the
\* document under a detected column whose value parses as a number, when
\* there is a rate to apply
ConvertedPairs ==
    {m \in PairsIn(odoc, <<>>) :
        /\ \E c \in DOMAIN env.cols : FoldTrim(env.cols[c]) = FoldTrim(m.key)
        /\ parse_number(MatchValue(odoc, m)).ok
        /\ AppliedRate(ostep, env).ok}

\* C11: after a currency_to call, each field whose magnitude was converted
\* has the value it held before the call under the sibling key <key>_orig,
\* and every field with the key detected as the currency code holds the
\* target code.
C11_AuditKeyAndCode ==
    [][(Op_currency_to /\ opc' = "returned" /\ ConvertedPairs # {}) =>
          /\ \A m \in ConvertedPairs :
                DictGet(GetAt(odoc', m.path), m.key \o "_orig") = MatchValue(odoc, m)
          /\ \A m \in PairsIn(odoc', <<>>) :
                FoldTrim(m.key) = FoldTrim(Str(env.tag))
                   => MatchValue(odoc', m) = PyStr(Upper(Str(Or(env.target, PyStr("ARS")))))]_vars

(***************************************************************************)
(* Properties of convert_units                                             *)
(***************************************************************************)
\* the calls of the semantic converter in a log of calls
ConverterCalls(log) == {i \in DOMAIN log : log[i].fn = "_run_llm_convert"}

\* C19: a convert_units call whose deterministic pass converted at least
\* one field does not call the semantic converter (so the document is
\* neither sent to it nor replaced by its reply).
C19_FallbackOnlyAfterZero ==
    [][(Op_convert_units /\ convert_units(odoc, ostep, env).changed > 0)
          => ConverterCalls(olog') = {}]_vars

RECURSIVE Shape(_)
\* the structure of a value: its keys and nesting, the scalars left out
Shape(x) ==
    IF IsDict(x) \/ IsList(x)
    THEN [x EXCEPT !.xs = [i \in DOMAIN x.xs |-> Entry(x.xs[i].k, Shape(x.xs[i].v))]]
    ELSE PyNone

\* C20: a convert_units call leaves a document with the keys and the
\* nesting it had: a reply of the semantic converter of another shape does
\* not replace it.
C20_ShapeKept ==
    [][Op_convert_units => Shape(odoc') = Shape(odoc)]_vars


(***************************************************************************)
(* Properties of the rename and of the currency label of execute_plan      *)
(***************************************************************************)
\* the map of the rename_columns step about to run
MapOfStep == Or(Get(plan[si], "map", PyDict(<<>>)), PyDict(<<>>))

\* C28: a rename leaves every destination key that was in the document in
\* place, with its value; and the same rename_columns step applied a
\* second time leaves the document as the first application left it.
C28_RenameKeepsDestination ==
    /\ []((epc = "done" /\ IsDict(tags_or_list) /\ plan \in RenameTwicePlans) =>
             Returned = << Branch_rename_columns(tags_or_list, plan[1]).doc >>)
    /\ [][Do_rename_columns =>
             \A i \in DOMAIN MapOfStep.xs :
                 HasKey(docs[di], MapOfStep.xs[i].v.s) =>
                     /\ HasKey(docs'[di], MapOfStep.xs[i].v.s)
                     /\ DictGet(docs'[di], MapOfStep.xs[i].v.s) =
                            _rename_keys_recursive(DictGet(docs[di], MapOfStep.xs[i].v.s),
                                                   MapOfStep).val]_vars

\* the target code of the currency_to step about to run
TargetOfStep == Upper(Or(DictGet(plan[si], "target"), PyStr("USD")).s)

\* C29: a currency_to step that ends leaves the upper-cased target code
\* (USD when the step names none) at totals.currency of the document.
C29_LabelIsTarget ==
    [][(Do_currency_to /\ epc' = "running") =>
          /\ IsDict(DictGet(docs'[di], "totals"))
          /\ DictGet(DictGet(docs'[di], "totals"), "currency") = PyStr(TargetOfStep)]_vars

\* the step ran on a document without totals, on one whose totals is no
\* object and on one whose total it converted
C29_Witness ==
    /\ epc = "done" /\ plan \in CurrencyPlans /\ Len(plan[1].xs) > 1
    /\ \/ Returned = << PyDict(<<Entry("Fecha", PyStr("05/01/2024")),
                                  Entry("totals", PyDict(<<Entry("currency", PyStr("EUR"))>>))>>) >>
       \/ Returned = << PyDict(<<Entry("totals", PyDict(<<Entry("currency", PyStr("EUR"))>>))>>) >>
       \/ Returned = << PyDict(<<Entry("totals", PyDict(<<Entry("total", PyStr("100.00")),
                                                        Entry("currency", PyStr("EUR"))>>))>>) >>
(***************************************************************************)
(* Failures of currency_to                                                 *)
(***************************************************************************)
\* the fields a currency_to call tries to convert: the pairs under a
\* detected column whose value parses as a number
TriedPairs ==
    {m \in PairsIn(odoc, <<>>) :
        /\ \E c \in DOMAIN env.cols : FoldTrim(env.cols[c]) = FoldTrim(m.key)
        /\ parse_number(MatchValue(odoc, m)).ok}

\* C27: a currency_to call whose conversions fail (no crossing of rates, a
\* rate that is no number) returns True and leaves each field it tried to
\* convert with the value it held.
\* fields of the currency tag.
C27_FailureKeepsField ==
    [][(Op_currency_to /\ opc' = "returned" /\ ~AppliedRate(ostep, env).ok /\ TriedPairs # {}) =>
          /\ oret' = PyBool(TRUE)
          /\ \A m \in TriedPairs : MatchValue(odoc', m) = MatchValue(odoc, m)]_vars
(***************************************************************************)
(* Properties of format_date                                               *)
(***************************************************************************)
\* s is a date in the form YYYY-MM-DD
Canonical(s) ==
    /\ Len(s) = 10
    /\ AllDigits(SubSeq(s, 1, 4)) /\ AllDigits(SubSeq(s, 6, 7)) /\ AllDigits(SubSeq(s, 9, 10))
    /\ Ch(s, 5) = "-" /\ Ch(s, 8) = "-"
    /\ MkDate(ToNat(SubSeq(s, 1, 4)), ToNat(SubSeq(s, 6, 7)), ToNat(SubSeq(s, 9, 10))).ok

\* the step infers the input format and prints %Y-%m-%d
InfersToIso(step) ==
    /\ Or(DictGet(step, "input_fmt"), PyStr("infer")) = PyStr("infer")
    /\ Or(DictGet(step, "output_fmt"), PyStr("%Y-%m-%d")) = PyStr("%Y-%m-%d")

\* C25: format_date with the input format "infer" and the output format
\* %Y-%m-%d leaves a field that holds a date in the form YYYY-MM-DD as it
\* is, and a second application of the step leaves the document as the
\* first one left it.
C25_CanonicalDateKept ==
    (olog # <<>> /\ olog[1].fn = "format_date" /\ InfersToIso(ostep)) =>
        /\ \A m \in PairsIn(olog[1].doc, <<>>) :
              ( /\ FoldTrim(m.key) = "fecha"
                /\ IsStr(MatchValue(olog[1].doc, m))
                /\ Canonical(MatchValue(olog[1].doc, m).s) )
                 => /\ format_date(MatchValue(olog[1].doc, m), PyStr("infer"), PyStr("%Y-%m-%d"))
                          = MatchValue(olog[1].doc, m)
                    /\ MatchValue(odoc, m) = MatchValue(olog[1].doc, m)
        /\ Len(olog) = 2 => odoc = olog[2].doc
(***************************************************************************)
(* The passes around the steps of execute_plan                             *)
(***************************************************************************)
RECURSIVE PassesAndSteps(_, _, _)
\* what a call returns when each document goes through auto_fix_strings,
\* then the steps of the plan, then (if kept) format_numbers_everywhere
PassesAndSteps(ds, p, i) ==
    IF i > Len(ds) THEN <<>>
    ELSE (IF RunAlone(auto_fix_strings(ds[i]), p).keep
          THEN << format_numbers_everywhere(RunAlone(auto_fix_strings(ds[i]), p).doc) >>
          ELSE <<>>)
         \o PassesAndSteps(ds, p, i + 1)

\* C24: a call of execute_plan that returns has run, for each document, the
\* pass over the strings (white space) first, then the steps of the plan,
\* then the pass over the numbers on the document if it was kept; the
\* documents are those whose strings the first pass only trims.
C24_PrePassStepsPostPass ==
    ( /\ epc = "done"
      /\ \A d \in 1..Len(GivenDocs) :
            /\ OnlyPlainTokens(GivenDocs[d])
            /\ ~RunAlone(auto_fix_strings(GivenDocs[d]), plan).raised )
        => Returned = PassesAndSteps(GivenDocs, plan, 1)
(***************************************************************************)
(* There and back: convert_units to another unit, then to the first one    *)
(***************************************************************************)
\* |a - b| <= tol, for rationals with positive denominators
Within(a, b, tol) ==
    a.ok /\ b.ok /\ Abs(a.n * b.d - b.n * a.d) * tol.d <= tol.n * a.d * b.d

\* (value, unit) of the length of the first item
LargoOf(d) == _parse_val_unit(DictGet(DictGet(d, "items").xs[1].v, "largo"))

\* one unit of the last place of the "%.2f" format
Tolerance2f == Rat(1, 100)

\* C23: a length v in the unit u1, converted by convert_units to a unit u2
\* of the same dimension and then back to u1, reads v again in the unit u1,
\* up to one unit of the last place of the two-decimal format.
C23_RoundTripRecovers ==
    \A t \in LengthTexts, u2 \in LengthUnits :
       ( /\ epc = "done"
         /\ tags_or_list = LengthDoc(t)
         /\ plan = ThereAndBack(_parse_val_unit(PyStr(t)).u, u2) )
          => /\ Len(Returned) = 1
             /\ LargoOf(Returned[1]).u = _parse_val_unit(PyStr(t)).u
             /\ Within(LargoOf(Returned[1]).v, _parse_val_unit(PyStr(t)).v, Tolerance2f)
(***************************************************************************)
(* nlp/ops/unit_convert_engine.py: apply_convert_units and the registry    *)
(* _ureg of the process.  Two workers call apply_convert_units; nothing in *)
(* the module orders their reads and writes of the registry.               *)
(***************************************************************************)
\* _UNIT_KEYS of the engine (unit_convert_engine.py:23-26)
Engine_UNIT_KEYS ==
    {"unidad", "unit", "units", "uom", "measure_unit", "unit_of_measure", "um",
     "medida_u", "u_de_medida", "unidad_medida"}

\* the units of _KEY_UNIT_SUFFIX_RE, in lower case (the pattern ignores the
\* case; its µm is outside the characters of the model's strings)
KeySuffixUnits ==
    {"km", "m", "cm", "mm", "um", "kg", "g", "mg", "lb", "lbs", "oz", "l", "lt",
     "ml", "m3", "cm3", "mm3"}

\* the position of the last "_" or "-" of k, 0 when there is none
LastSeparator(k) ==
    IF RIndexFrom("_", k, Len(k)) > RIndexFrom("-", k, Len(k))
    THEN RIndexFrom("_", k, Len(k)) ELSE RIndexFrom("-", k, Len(k))

\* the unit a key name ends with ("largo_cm" -> "cm"), "" for None
_unit_from_key_name(k) ==
    IF LastSeparator(k) > 0 /\ Lower(SubSeq(k, LastSeparator(k) + 1, Len(k))) \in KeySuffixUnits
    THEN SubSeq(k, LastSeparator(k) + 1, Len(k))
    ELSE ""

\* float(s) after the separators of the locale were put in place
_norm_num_locale(s) ==
    IF InStr(",", Strip(s)) /\ InStr(".", Strip(s))
    THEN IF RIndexFrom(",", Strip(s), Len(Strip(s))) > RIndexFrom(".", Strip(s), Len(Strip(s)))
         THEN ParseFloat(ReplaceChar(DropChar(Strip(s), "."), ",", "."))
         ELSE ParseFloat(DropChar(Strip(s), ","))
    ELSE ParseFloat(ReplaceChar(Strip(s), ",", "."))

\* the float of an int, a float or a str; NoNum for None
_to_float(x) ==
    IF x.t \in {"int", "float"} THEN ParseFloat(x.s)
    ELSE IF IsStr(x) THEN _norm_num_locale(x.s)
    ELSE NoNum

RECURSIVE RStripZeros(_)
RStripZeros(s) == IF s # "" /\ Ch(s, Len(s)) = "0" THEN RStripZeros(SubSeq(s, 1, Len(s) - 1)) ELSE s

\* f"{x:.6f}" for x >= 0 (the numerators stay inside TLC's integers for the
\* magnitudes of the documents below 2000 with denominators up to 2000)
Format6f(x) ==
    NatToStr(x.n \div x.d) \o "."
    \o ZeroPad(NatToStr((((x.n % x.d) * 1000000) \div x.d)
                        + (IF 2 * (((x.n % x.d) * 1000000) % x.d) > x.d THEN 1 ELSE 0)), 6)

\* unit_convert_engine.py:56-59
_fmt_num(x) ==
    IF x.n = 0 THEN "0"
    ELSE IF RStripZeros(Format6f(x)) # "" /\ Ch(RStripZeros(Format6f(x)), Len(RStripZeros(Format6f(x)))) = "."
    THEN SubSeq(RStripZeros(Format6f(x)), 1, Len(RStripZeros(Format6f(x))) - 1)
    ELSE RStripZeros(Format6f(x))

\* repr of the float x, for the magnitudes that six decimals write exactly
FloatText(x) == IF InStr(".", _fmt_num(x)) THEN _fmt_num(x) ELSE _fmt_num(x) \o ".0"

\* --- the registry ---
\* the names the steps and the replies define
CustomNames == {"camion", "camiones", "caja"}
\* a definition `name = factor * base`; on is FALSE for a name not defined
Definition(factor, base) == [on |-> TRUE, factor |-> factor, base |-> base]
NoDefinition == [on |-> FALSE, factor |-> Rat(1, 1), base |-> ""]

\* the units pint knows by itself, under the names the engine writes
StandardUnit(u) ==
    CASE u \in {"meter", "meters"} -> PintUnit("m")
      [] u \in {"kilogram", "kilograms"} -> PintUnit("kg")
      [] u \in {"liter", "liters", "l", "L"} -> [ok |-> TRUE, dim |-> "volume", size |-> Rat(1, 1)]
      [] u = "ml" -> [ok |-> TRUE, dim |-> "volume", size |-> Rat(1, 1000)]
      [] OTHER -> PintUnit(u)

RECURSIVE UnitIn(_, _, _)
\* _ureg(u) in the registry reg: a standard unit, or a defined name through
\* its base (depth: a name, its alias); not ok is pint's exception
UnitIn(reg, u, depth) ==
    IF StandardUnit(u).ok THEN StandardUnit(u)
    ELSE IF depth > 0 /\ u \in DOMAIN reg /\ reg[u].on /\ UnitIn(reg, reg[u].base, depth - 1).ok
    THEN [ok |-> TRUE, dim |-> UnitIn(reg, reg[u].base, depth - 1).dim,
          size |-> RatMul(reg[u].factor, UnitIn(reg, reg[u].base, depth - 1).size)]
    ELSE NoUnit
RegUnit(reg, u) == UnitIn(reg, u, 2)

\* _ureg.define(f"{name} = {factor} * {base}"): pint's registry takes the
\* definition of a name it already holds as the new one (on_redefinition is
\* "warn", its default: _ureg is built without it at line 14)
Define(reg, name, factor, base) ==
    IF name \in DOMAIN reg THEN [reg EXCEPT ![name] = Definition(factor, base)] ELSE reg

\* the alias the engine defines next to a plural name, "" for none
AliasOf(name) ==
    IF EndsWith(name, "es") THEN SubSeq(name, 1, Len(name) - 2)
    ELSE IF EndsWith(name, "s") THEN SubSeq(name, 1, Len(name) - 1)
    ELSE ""

\* _maybe_quantity(num, u) then _convert_quantity(q, target): the magnitude
\* in the target unit, NoNum for None
ConvertIn(reg, num, u, target) ==
    IF num.ok /\ u # "" /\ RegUnit(reg, u).ok /\ RegUnit(reg, target).ok
       /\ RegUnit(reg, u).dim = RegUnit(reg, target).dim
    THEN RatMul(num, RatDiv(RegUnit(reg, u).size, RegUnit(reg, target).size))
    ELSE NoNum

\* --- the walk of apply_convert_units (lines 282-356) ---
\* [a-zA-Z%/^\-\._] of _NUM_UNIT_RE (its µ is outside the model's characters)
EngineUnitChars == AsciiLetters \o "%/^-._"

\* the end of the group num of _NUM_UNIT_RE in a stripped text: a sign, then
\* digits with at most one [.,] group (the texts of the documents hold no
\* thousands groups, the second alternative of the pattern)
EngineNumEnd(t) == DecimalEnd(t, IF t # "" /\ InStr(Ch(t, 1), "+-") THEN 2 ELSE 1)

\* _NUM_UNIT_RE.match(t) for a stripped t: a number, then a unit to the end
MatchesNumUnit(t) ==
    /\ EngineNumEnd(t) > (IF t # "" /\ InStr(Ch(t, 1), "+-") THEN 2 ELSE 1)
    /\ LStripAt(t, EngineNumEnd(t)) <= Len(t)
    /\ SpanEnd(t, LStripAt(t, EngineNumEnd(t)), EngineUnitChars) > Len(t)
NumGroup(t) == SubSeq(t, 1, EngineNumEnd(t) - 1)
UnitGroup(t) == SubSeq(t, LStripAt(t, EngineNumEnd(t)), Len(t))

RECURSIVE SiblingUnitFrom(_, _)
\* lines 285-289: the unit next to the values of a dict, "" for None (the
\* documents hold at most one key of _UNIT_KEYS in a dict, so the order in
\* which the set is walked does not show)
SiblingUnitFrom(es, i) ==
    IF i > Len(es) THEN ""
    ELSE IF es[i].k \in Engine_UNIT_KEYS /\ IsStr(es[i].v) /\ Strip(es[i].v.s) # ""
    THEN Strip(es[i].v.s)
    ELSE SiblingUnitFrom(es, i + 1)

RECURSIVE UnitKeyFrom(_, _)
\* the key of _UNIT_KEYS a dict holds, "" for none
UnitKeyFrom(es, i) ==
    IF i > Len(es) THEN ""
    ELSE IF es[i].k \in Engine_UNIT_KEYS THEN es[i].k ELSE UnitKeyFrom(es, i + 1)

\* key_unit or sibling_unit_local
SourceUnit(node, k) ==
    IF _unit_from_key_name(k) # "" THEN _unit_from_key_name(k) ELSE SiblingUnitFrom(node.xs, 1)

\* one line of the list `changed`
Change(path, from, to) ==
    PyDict(<<Entry("path", PyStr(path)), Entry("from", PyStr(from)), Entry("to", PyStr(to))>>)

NoHit == [hit |-> FALSE, val |-> PyNone, from |-> "", to |-> ""]
\* what the branches A and B do with the value v under the key k: the new
\* value and the texts of the log, or no conversion
ValueOutcome(node, k, v, reg, target) ==
    IF v.t \in {"int", "float"}
    THEN IF ConvertIn(reg, ParseFloat(v.s), SourceUnit(node, k), target).ok
         THEN [hit |-> TRUE,
               val |-> PyFloat(FloatText(ConvertIn(reg, ParseFloat(v.s), SourceUnit(node, k), target))),
               from |-> v.s \o " " \o SourceUnit(node, k),
               to |-> _fmt_num(ConvertIn(reg, ParseFloat(v.s), SourceUnit(node, k), target)) \o " " \o target]
         ELSE NoHit
    ELSE IF IsStr(v) /\ MatchesNumUnit(Strip(v.s))
    THEN IF ConvertIn(reg, _norm_num_locale(NumGroup(Strip(v.s))), UnitGroup(Strip(v.s)), target).ok
         THEN [hit |-> TRUE,
               val |-> PyStr(_fmt_num(ConvertIn(reg, _norm_num_locale(NumGroup(Strip(v.s))),
                                                UnitGroup(Strip(v.s)), target)) \o " " \o target),
               from |-> v.s,
               to |-> _fmt_num(ConvertIn(reg, _norm_num_locale(NumGroup(Strip(v.s))),
                                         UnitGroup(Strip(v.s)), target)) \o " " \o target]
         ELSE NoHit
    ELSE IF IsStr(v)
    THEN IF ConvertIn(reg, _to_float(v), SourceUnit(node, k), target).ok
         THEN [hit |-> TRUE,
               val |-> PyFloat(FloatText(ConvertIn(reg, _to_float(v), SourceUnit(node, k), target))),
               from |-> v.s \o " " \o SourceUnit(node, k),
               to |-> _fmt_num(ConvertIn(reg, _to_float(v), SourceUnit(node, k), target)) \o " " \o target]
         ELSE NoHit
    ELSE NoHit

\* what a walk leaves: the new node and the list `changed`
EngineWalked(node, changed) == [node |-> node, changed |-> changed]

\* new_node[k] = the converted value, and the unit key of the node relabeled
SetConverted(node, new_node, k, o, target) ==
    IF UnitKeyFrom(node.xs, 1) # ""
    THEN DictSet(DictSet(new_node, k, o.val), UnitKeyFrom(node.xs, 1), PyStr(target))
    ELSE DictSet(new_node, k, o.val)

ChildPath(path, k) == IF path # "" THEN path \o "." \o k ELSE k
ItemPath(path, i) == path \o "[" \o NatToStr(i - 1) \o "]"

RECURSIVE EngineWalk(_, _, _, _, _)
RECURSIVE EngineItems(_, _, _, _, _, _, _)
RECURSIVE EngineItem(_, _, _, _, _, _, _, _)
RECURSIVE EngineChild(_, _, _, _, _, _, _)
RECURSIVE EngineList(_, _, _, _, _, _)
RECURSIVE EngineListItem(_, _, _, _, _, _)
\* the items of a dict in order: new_node grows, changed is the log so far
EngineItems(node, i, new_node, changed, path, reg, target) ==
    IF i > Len(node.xs) THEN EngineWalked(new_node, changed)
    ELSE EngineItem(node, i, new_node, changed, path, reg, target,
                    ValueOutcome(node, node.xs[i].k, node.xs[i].v, reg, target))
EngineItem(node, i, new_node, changed, path, reg, target, o) ==
    IF o.hit
    THEN EngineItems(node, i + 1, SetConverted(node, new_node, node.xs[i].k, o, target),
                     Append(changed, Change(ChildPath(path, node.xs[i].k), o.from, o.to)),
                     path, reg, target)
    ELSE EngineChild(node, i, new_node, path, reg, target,
                     EngineWalk(node.xs[i].v, ChildPath(path, node.xs[i].k), reg, target, changed))
\* branch C: new_node[k] = _walk(v, child_path)
EngineChild(node, i, new_node, path, reg, target, r) ==
    EngineItems(node, i + 1, DictSet(new_node, node.xs[i].k, r.node), r.changed, path, reg, target)
\* the items of a list
EngineList(node, i, changed, path, reg, target) ==
    IF i > Len(node.xs) THEN EngineWalked(node, changed)
    ELSE EngineListItem(node, i, path, reg, target,
                        EngineWalk(node.xs[i].v, ItemPath(path, i), reg, target, changed))
EngineListItem(node, i, path, reg, target, r) ==
    EngineList([node EXCEPT !.xs[i].v = r.node], i + 1, r.changed, path, reg, target)
\* _walk(node, path)
EngineWalk(node, path, reg, target, changed) ==
    IF IsDict(node) THEN EngineItems(node, 1, PyDict(<<>>), changed, path, reg, target)
    ELSE IF IsList(node) THEN EngineList(node, 1, changed, path, reg, target)
    ELSE EngineWalked(node, changed)

AuditKey == "_unit_conversion_audit"
\* lines 358-369: the document takes the walked one; the log is printed, or
\* added to the list the document holds under _unit_conversion_audit
WithAudit(r) ==
    IF r.changed # <<>> /\ IsList(DictGet(r.node, AuditKey))
    THEN DictSet(r.node, AuditKey,
                 [DictGet(r.node, AuditKey) EXCEPT !.xs = @ \o AsEntries(r.changed)])
    ELSE r.node

\* the document apply_convert_units leaves for the target unit `target`
\* with the registry reg
ConvertedDocument(doc, reg, target) == WithAudit(EngineWalk(doc, "", reg, target, <<>>))

RECURSIVE SiblingUnitLower(_, _)
\* the first str under a key that is in _UNIT_KEYS once lowered
SiblingUnitLower(es, i) ==
    IF i > Len(es) THEN ""
    ELSE IF Lower(es[i].k) \in Engine_UNIT_KEYS /\ IsStr(es[i].v) /\ Strip(es[i].v.s) # ""
    THEN Strip(es[i].v.s)
    ELSE SiblingUnitLower(es, i + 1)

RECURSIVE _first_sibling_unit(_)
RECURSIVE FirstSiblingIn(_, _)
\* lines 177-189: the first unit a unit key of the document holds, "" for None
_first_sibling_unit(o) ==
    IF IsDict(o) /\ SiblingUnitLower(o.xs, 1) # "" THEN SiblingUnitLower(o.xs, 1)
    ELSE IF IsDict(o) \/ IsList(o) THEN FirstSiblingIn(o.xs, 1)
    ELSE ""
FirstSiblingIn(es, i) ==
    IF i > Len(es) THEN ""
    ELSE IF _first_sibling_unit(es[i].v) # "" THEN _first_sibling_unit(es[i].v)
    ELSE FirstSiblingIn(es, i + 1)

\* lines 224-228 and 273-277: the common names of the base units
NormalBase(u) ==
    IF Lower(u) \in {"meter", "meters"} THEN "meter"
    ELSE IF Lower(u) \in {"liter", "liters", "lt", "l"} THEN "liter"
    ELSE IF Lower(u) \in {"kilogram", "kilograms"} THEN "kilogram"
    ELSE u

\* the pattern of line 215 over a stripped text: digits with at most one
\* [.,] group, then letters or "/" to the end
MatchesFactorBase(t) ==
    /\ DecimalEnd(t, 1) > 1
    /\ LStripAt(t, DecimalEnd(t, 1)) <= Len(t)
    /\ SpanEnd(t, LStripAt(t, DecimalEnd(t, 1)), AsciiLetters \o "/") > Len(t)

\* lines 207-228: the definition a conversion_value gives, with the unit of
\* the document as the base of a bare number
DefinitionFrom(cv, hint) ==
    IF cv.t \in {"int", "float"}
    THEN Definition(ParseFloat(cv.s), NormalBase(IF hint # "" THEN hint ELSE "meter"))
    ELSE IF IsStr(cv) /\ MatchesFactorBase(Strip(cv.s))
            /\ _norm_num_locale(SubSeq(Strip(cv.s), 1, DecimalEnd(Strip(cv.s), 1) - 1)).ok
    THEN Definition(_norm_num_locale(SubSeq(Strip(cv.s), 1, DecimalEnd(Strip(cv.s), 1) - 1)),
                    NormalBase(SubSeq(Strip(cv.s), LStripAt(Strip(cv.s), DecimalEnd(Strip(cv.s), 1)),
                                      Len(Strip(cv.s)))))
    ELSE NoDefinition

\* --- the calls ---
Workers == {1, 2}

\* what _ask_model_for_units returns: the target unit and at most one custom
\* unit (custom = "" for none); ok is FALSE when the call raises
ParsedInstruction(target, custom, def) == [ok |-> TRUE, target |-> target, custom |-> custom, def |-> def]
NoParsed == [ok |-> FALSE, target |-> "", custom |-> "", def |-> NoDefinition]

EngineStep(params) == PyDict(params)
EngineSteps ==
    { EngineStep(<<Entry("target_unit", PyStr("camiones")), Entry("conversion_value", PyStr("10m"))>>),
      EngineStep(<<Entry("target_unit", PyStr("camiones")), Entry("conversion_value", PyStr("12,5 m"))>>),
      EngineStep(<<Entry("instruction", PyStr("pasar a camiones")), Entry("conversion_value", PyInt(5))>>),
      EngineStep(<<Entry("target_unit", PyStr(" mm "))>>),
      EngineStep(<<Entry("conversion_value", PyStr("10m"))>>) }

EngineReplies ==
    { NoParsed,
      ParsedInstruction("camiones", "", NoDefinition),
      ParsedInstruction("camiones", "camiones", Definition(Rat(10, 1), "m")),
      ParsedInstruction("camion", "camion", Definition(Rat(20, 1), "m")) }

EngineDocs ==
    { PyDict(<<Entry("largo_cm", PyInt(1200)), Entry(AuditKey, PyList(<<>>))>>),
      PyDict(<<Entry("items", PyList(<<PyDict(<<Entry("largo", PyStr("20 m"))>>)>>))>>),
      PyDict(<<Entry("cantidad", PyStr("30")), Entry("unidad", PyStr("m")),
               Entry(AuditKey, PyList(<<PyDict(<<Entry("nota", PyStr("revisado"))>>)>>))>>),
      PyDict(<<Entry("cliente", PyStr("ACME"))>>) }

\* instruction = step.get("instruction") or step.get("instr") or ""
InstructionOf(step) == Or(Or(DictGet(step, "instruction"), DictGet(step, "instr")), PyStr(""))

\* a call of apply_convert_units(doc, step) about to start, with the reply
\* the model gives if it is asked
EngineCall(doc, step, reply) ==
    [pc |-> "start", doc |-> doc, step |-> step, reply |-> reply, parsed |-> NoParsed,
     target |-> "", pending |-> NoDefinition, ret |-> PyNone]

InitUnits ==
    /\ tags_or_list = PyNone /\ plan = <<>> /\ docs = <<>> /\ di = 1 /\ si = 1
    /\ keep = TRUE /\ out = <<>> /\ epc = "idle" /\ applied = <<>>
    /\ text = PyNone /\ raw = PyNone /\ plan_llm = <<>> /\ plan_h = <<>>
    /\ final_plan = <<>> /\ meta = PyNone /\ cpc = "idle" /\ chat = "none"
    /\ names = <<>> /\ files = <<>> /\ now = 0 /\ calls = <<>> /\ remote = <<>>
    /\ reqlog = <<>>
    /\ odoc = PyNone /\ ostep = PyNone /\ opc = "idle" /\ oret = PyNone
    /\ env = <<>> /\ olog = <<>>
    /\ raw_text = "" /\ intents = {} /\ slots = <<>> /\ spacy_plan = <<>> /\ report = <<>> /\ spc = "idle"
    /\ ureg = [n \in CustomNames |-> NoDefinition]
    /\ uw \in [Workers -> {EngineCall(d, s, r) : d \in EngineDocs, s \in EngineSteps, r \in EngineReplies}]
    /\ \A w \in Workers : Truthy(InstructionOf(uw[w].step)) \/ uw[w].reply = NoParsed

\* lines 253-270: the instruction is read by the model (an exception leaves
\* the empty ParsedInstruction), the target unit is the one of the step or
\* else the one of the reply; no target unit: return True
Begin(w) ==
    /\ uw[w].pc = "start"
    /\ uw' = [uw EXCEPT ![w] =
          [@ EXCEPT
             !.parsed = IF Truthy(InstructionOf(uw[w].step)) THEN uw[w].reply ELSE NoParsed,
             !.target = IF Strip(Str(Or(DictGet(uw[w].step, "target_unit"), PyStr("")))) # ""
                        THEN Strip(Str(Or(DictGet(uw[w].step, "target_unit"), PyStr(""))))
                        ELSE IF Truthy(InstructionOf(uw[w].step)) THEN Strip(uw[w].reply.target)
                        ELSE "",
             !.pc = IF /\ Strip(Str(Or(DictGet(uw[w].step, "target_unit"), PyStr("")))) = ""
                       /\ ~(Truthy(InstructionOf(uw[w].step)) /\ Strip(uw[w].reply.target) # "")
                    THEN "done"
                    ELSE IF Truthy(InstructionOf(uw[w].step)) /\ uw[w].reply.custom # ""
                    THEN "ensure"
                    ELSE "check",
             !.ret = IF /\ Strip(Str(Or(DictGet(uw[w].step, "target_unit"), PyStr("")))) = ""
                        /\ ~(Truthy(InstructionOf(uw[w].step)) /\ Strip(uw[w].reply.target) # "")
                     THEN PyBool(TRUE) ELSE PyNone]]
    /\ UNCHANGED ureg
    /\ UNCHANGED <<execVars, compVars, rateVars, opsVars, spacyVars>>

\* _ensure_pint_custom_units, line 139: the unit of the reply is defined,
\* whether the registry holds the name or not
Ensure(w) ==
    /\ uw[w].pc = "ensure"
    /\ ureg' = Define(ureg, uw[w].parsed.custom, uw[w].parsed.def.factor, uw[w].parsed.def.base)
    /\ uw' = [uw EXCEPT ![w].pc = IF AliasOf(uw[w].parsed.custom) # "" THEN "ensure_alias" ELSE "check"]
    /\ UNCHANGED <<execVars, compVars, rateVars, opsVars, spacyVars>>

\* lines 143-147: the singular of a plural name
EnsureAlias(w) ==
    /\ uw[w].pc = "ensure_alias"
    /\ ureg' = Define(ureg, AliasOf(uw[w].parsed.custom), Rat(1, 1), uw[w].parsed.custom)
    /\ uw' = [uw EXCEPT ![w].pc = "check"]
    /\ UNCHANGED <<execVars, compVars, rateVars, opsVars, spacyVars>>

\* lines 272-278 and 199-230: _define_custom_unit_from_step looks the target
\* unit up and, if the registry does not hold it, works out its definition
\* from conversion_value
Lookup(w) ==
    /\ uw[w].pc = "check"
    /\ uw' = [uw EXCEPT ![w] =
          [@ EXCEPT
             !.pending = IF RegUnit(ureg, uw[w].target).ok THEN NoDefinition
                         ELSE DefinitionFrom(DictGet(uw[w].step, "conversion_value"),
                                             NormalBase(_first_sibling_unit(uw[w].doc))),
             !.pc = IF ~RegUnit(ureg, uw[w].target).ok
                       /\ DefinitionFrom(DictGet(uw[w].step, "conversion_value"),
                                         NormalBase(_first_sibling_unit(uw[w].doc))).on
                    THEN "define" ELSE "walk"]]
    /\ UNCHANGED ureg
    /\ UNCHANGED <<execVars, compVars, rateVars, opsVars, spacyVars>>

\* line 232: the definition worked out after the lookup is written
Register(w) ==
    /\ uw[w].pc = "define"
    /\ ureg' = Define(ureg, uw[w].target, uw[w].pending.factor, uw[w].pending.base)
    /\ uw' = [uw EXCEPT ![w].pc = IF AliasOf(uw[w].target) # "" THEN "alias" ELSE "walk"]
    /\ UNCHANGED <<execVars, compVars, rateVars, opsVars, spacyVars>>

\* lines 233-238
RegisterAlias(w) ==
    /\ uw[w].pc = "alias"
    /\ ureg' = Define(ureg, AliasOf(uw[w].target), Rat(1, 1), uw[w].target)
    /\ uw' = [uw EXCEPT ![w].pc = "walk"]
    /\ UNCHANGED <<execVars, compVars, rateVars, opsVars, spacyVars>>

\* lines 280-371: the walk with the registry as it is, the log, return True
Convert(w) ==
    /\ uw[w].pc = "walk"
    /\ uw' = [uw EXCEPT ![w] =
          [@ EXCEPT !.doc = ConvertedDocument(uw[w].doc, ureg, uw[w].target),
                    !.pc = "done",
                    !.ret = PyBool(TRUE)]]
    /\ UNCHANGED ureg
    /\ UNCHANGED <<execVars, compVars, rateVars, opsVars, spacyVars>>

UnitsNext ==
    \/ \E w \in Workers : Begin(w)
    \/ \E w \in Workers : Ensure(w)
    \/ \E w \in Workers : EnsureAlias(w)
    \/ \E w \in Workers : Lookup(w)
    \/ \E w \in Workers : Register(w)
    \/ \E w \in Workers : RegisterAlias(w)
    \/ \E w \in Workers : Convert(w)

SpecUnits == InitUnits /\ [][UnitsNext]_vars

(***************************************************************************)
(* Properties of the unit engine                                           *)
(***************************************************************************)
\* the lines of a conversion log among the items of a list
TrailLines(lst) ==
    { lst.xs[i].v : i \in { j \in DOMAIN lst.xs :
          /\ IsDict(lst.xs[j].v)
          /\ HasKey(lst.xs[j].v, "path") /\ HasKey(lst.xs[j].v, "from") /\ HasKey(lst.xs[j].v, "to") } }
\* the lines of a conversion log the document holds
TrailIn(doc) ==
    IF IsDict(doc) /\ IsList(DictGet(doc, AuditKey)) THEN TrailLines(DictGet(doc, AuditKey)) ELSE {}

\* C21: the walk of apply_convert_units writes no line of its conversion log
\* (path, from, to) into the document: the document holds no such line
\* after the step that it did not hold before.
C21_LogNotInDocument ==
    [][\A w \in Workers : Convert(w) => TrailIn(uw'[w].doc) \subseteq TrailIn(uw[w].doc)]_vars

\* C22: a unit the registry holds keeps its definition (factor and base
\* unit) whatever any worker registers later, in the same call, in a later
\* one or at the same time.
C22_RegistryAppendOnly ==
    [][\A n \in CustomNames : ureg[n].on => ureg'[n] = ureg[n]]_vars
(***************************************************************************)
(* nlp/instruction_spacy.py: interpret_with_spacy.  What spaCy finds in    *)
(* an instruction (tokens, the entities of the EntityRuler, the matches of *)
(* the Matcher) is read off the words of the instruction: a token is a run *)
(* of word characters, and the typographic quotation marks of the patterns *)
(* are outside the characters of the model's strings.  The searches go     *)
(* over the set of the positions of the text.                              *)
(***************************************************************************)
\* the only element of a set of one: TheOne({F(x) : x \in {e}}) is F(e)
\* with e worked out once
TheOne(S) == CHOOSE x \in S : TRUE
\* the first position of a set of positions, 0 when there is none
FirstHit(S) == IF S = {} THEN 0 ELSE CHOOSE i \in S : \A j \in S : i <= j

QuoteChars == "\"'"
IsQuote(c) == c # "" /\ InStr(c, QuoteChars)

SpacyWordChars == LowerChars \o UpperChars \o DigitChars \o "_"
WordEnd(t, i) == SpanEnd(t, i, SpacyWordChars)
WordAt(t, i) == SubSeq(t, i, WordEnd(t, i) - 1)
\* `\b` before a word character at i
StartsWord(t, i) == IsWordChar(Ch(t, i)) /\ ~IsWordChar(Ch(t, i - 1))

RECURSIVE WordStart(_, _)
\* the start of the run of [\wáéíóúüñ] that ends at j (j + 1: no such run)
WordStart(t, j) == IF j >= 1 /\ IsWordChar(Ch(t, j)) THEN WordStart(t, j - 1) ELSE j + 1

\* the run of word characters before position i, blanks skipped
WordBefore(t, i) ==
    IF RStripAt(t, i - 1) >= 1 /\ IsWordChar(Ch(t, RStripAt(t, i - 1)))
    THEN SubSeq(t, WordStart(t, RStripAt(t, i - 1)), RStripAt(t, i - 1))
    ELSE ""

\* group 1 of a pattern `(?:p1|p2)?\s*([\w...]+)` whose word ends before i:
\* the whole run, or what follows the optional prefix when the match has to
\* start at the run and the run starts with the prefix
ColumnBefore(t, i, prefixes) ==
    IF /\ WordBefore(t, i) # ""
       /\ ~IsSpace(Ch(t, WordStart(t, RStripAt(t, i - 1)) - 1))
       /\ \E p \in prefixes : /\ Len(WordBefore(t, i)) > Len(p)
                              /\ Lower(SubSeq(WordBefore(t, i), 1, Len(p))) = p
    THEN LET p == CHOOSE q \in prefixes : /\ Len(WordBefore(t, i)) > Len(q)
                                          /\ Lower(SubSeq(WordBefore(t, i), 1, Len(q))) = q
         IN  SubSeq(WordBefore(t, i), Len(p) + 1, Len(WordBefore(t, i)))
    ELSE WordBefore(t, i)

Donde == {"donde", "dónde"}

\* the end of the run of characters that are no quotation mark, from i
RECURSIVE NonQuoteEnd(_, _)
NonQuoteEnd(t, i) == IF i <= Len(t) /\ ~IsQuote(Ch(t, i)) THEN NonQuoteEnd(t, i + 1) ELSE i

\* a quoted text starts at k: a mark, one character or more, a mark
QuotedAt(t, k) == IsQuote(Ch(t, k)) /\ NonQuoteEnd(t, k + 1) > k + 1 /\ IsQuote(Ch(t, NonQuoteEnd(t, k + 1)))
QuotedText(t, k) == SubSeq(t, k + 1, NonQuoteEnd(t, k + 1) - 1)

NoMatch == [ok |-> FALSE, column |-> "", op |-> "", value |-> "", hi |-> ""]
Match(column, op, value, hi) == [ok |-> TRUE, column |-> column, op |-> op, value |-> value, hi |-> hi]

\* m_eq (lines 270-273), word = "value": the equals sign of a match
EqAt(t, i) == Ch(t, i) = "=" /\ WordBefore(t, i) # "" /\ QuotedAt(t, LStripAt(t, i + 1))
m_eq(t) ==
    TheOne({ IF i = 0 THEN NoMatch
             ELSE Match(ColumnBefore(t, i, Donde), "", QuotedText(t, LStripAt(t, i + 1)), "") :
             i \in {FirstHit({j \in 1..Len(t) : EqAt(t, j)})} })

\* m_contains (lines 274-277), word contiene "value": the verb of a match
ContieneAt(t, i) ==
    /\ i + 7 <= Len(t)
    /\ Lower(Ch(t, i)) = "c"
    /\ Lower(SubSeq(t, i, i + 7)) = "contiene"
    /\ IsSpace(Ch(t, i - 1))
    /\ WordBefore(t, i) # ""
    /\ QuotedAt(t, LStripAt(t, i + 8))
m_contains(t) ==
    TheOne({ IF i = 0 THEN NoMatch
             ELSE Match(ColumnBefore(t, i, Donde \cup {"que"}), "", QuotedText(t, LStripAt(t, i + 8)), "") :
             i \in {FirstHit({j \in 1..Len(t) : ContieneAt(t, j)})} })

\* the comparison operator that starts at i, "" for none
CmpOpAt(t, i) ==
    IF Ch(t, i) \o Ch(t, i + 1) \in {"<=", ">="} THEN Ch(t, i) \o Ch(t, i + 1)
    ELSE IF Ch(t, i) # "" /\ InStr(Ch(t, i), "<>") THEN Ch(t, i)
    ELSE ""

\* m_cmp (lines 278-281), word, operator, a number that starts with a
\* digit: the operator of a match
CmpAt(t, i) ==
    /\ CmpOpAt(t, i) # ""
    /\ WordBefore(t, i) # ""
    /\ IsDigit(Ch(t, LStripAt(t, i + Len(CmpOpAt(t, i)))))
m_cmp(t) ==
    TheOne({ IF i = 0 THEN NoMatch
             ELSE Match(ColumnBefore(t, i, Donde), CmpOpAt(t, i),
                        SubSeq(t, LStripAt(t, i + Len(CmpOpAt(t, i))),
                               SpanEnd(t, LStripAt(t, i + Len(CmpOpAt(t, i))), "0123456789.,") - 1),
                        "") :
             i \in {FirstHit({j \in 1..Len(t) : CmpAt(t, j)})} })

RangeChars == "0123456789/.-"
\* `\s+([0-9/.\-]+)` from position k: the end of the group, 0 when it fails
RangeEnd(t, k) ==
    IF LStripAt(t, k) > k /\ SpanEnd(t, LStripAt(t, k), RangeChars) > LStripAt(t, k)
    THEN SpanEnd(t, LStripAt(t, k), RangeChars)
    ELSE 0

\* m_between (lines 282-285), entre a y b: the word entre of a match
EntreAt(t, i) ==
    /\ i + 4 <= Len(t)
    /\ Lower(Ch(t, i)) = "e"
    /\ Lower(SubSeq(t, i, i + 4)) = "entre"
    /\ RangeEnd(t, i + 5) > 0
    /\ LStripAt(t, RangeEnd(t, i + 5)) > RangeEnd(t, i + 5)
    /\ Lower(Ch(t, LStripAt(t, RangeEnd(t, i + 5)))) = "y"
    /\ RangeEnd(t, LStripAt(t, RangeEnd(t, i + 5)) + 1) > 0
m_between(t) ==
    TheOne({ IF i = 0 THEN NoMatch
             ELSE Match("", "",
                        SubSeq(t, LStripAt(t, i + 5), RangeEnd(t, i + 5) - 1),
                        SubSeq(t, LStripAt(t, LStripAt(t, RangeEnd(t, i + 5)) + 1),
                               RangeEnd(t, LStripAt(t, RangeEnd(t, i + 5)) + 1) - 1)) :
             i \in {FirstHit({j \in 1..Len(t) : EntreAt(t, j)})} })

\* lines 288-296: the slot filter; type "" is None
FilterSlot(t) ==
    IF m_eq(t).ok THEN m_eq(t) @@ [type |-> "eq"]
    ELSE IF m_contains(t).ok THEN m_contains(t) @@ [type |-> "contains"]
    ELSE IF m_cmp(t).ok THEN m_cmp(t) @@ [type |-> "cmp"]
    ELSE IF m_between(t).ok THEN m_between(t) @@ [type |-> "between"]
    ELSE NoMatch @@ [type |-> ""]

\* --- _extract_columns (lines 161-184) ---
\* `donde word = "value"` (lines 163-166): the equals sign of a match
DondeEqAt(t, i) ==
    /\ EqAt(t, i)
    /\ IsSpace(Ch(t, WordStart(t, RStripAt(t, i - 1)) - 1))
    /\ RStripAt(t, WordStart(t, RStripAt(t, i - 1)) - 1) >= 5
    /\ Lower(SubSeq(t, RStripAt(t, WordStart(t, RStripAt(t, i - 1)) - 1) - 4,
                    RStripAt(t, WordStart(t, RStripAt(t, i - 1)) - 1))) \in Donde
\* filter_value, "" for None
filter_value(t) ==
    TheOne({ IF i = 0 THEN "" ELSE Strip(QuotedText(t, LStripAt(t, i + 1))) :
             i \in {FirstHit({j \in 1..Len(t) : DondeEqAt(t, j)})} })

\* the first quotation mark from i on, 0 when there is none
NextQuote(t, i) == FirstHit({j \in i..Len(t) : IsQuote(Ch(t, j))})

RECURSIVE QuotedFrom(_, _)
\* re.findall of the quoted texts (line 169)
QuotedFrom(t, i) ==
    IF NextQuote(t, i) = 0 THEN <<>>
    ELSE IF QuotedAt(t, NextQuote(t, i))
    THEN <<QuotedText(t, NextQuote(t, i))>> \o QuotedFrom(t, NonQuoteEnd(t, NextQuote(t, i) + 1) + 1)
    ELSE QuotedFrom(t, NextQuote(t, i) + 1)

\* what a piece of the list after `columna` is made of: [\w.-]
CsvPieceChars == LowerChars \o UpperChars \o DigitChars \o "_.-"

RECURSIVE SplitFrom(_, _)
\* re.split(r'[ ,/]+', s) without the empty pieces, for s made of the
\* characters of the pieces and of " ,/"
SplitFrom(s, i) ==
    IF i > Len(s) THEN <<>>
    ELSE IF ~InStr(Ch(s, i), CsvPieceChars) THEN SplitFrom(s, i + 1)
    ELSE <<SubSeq(s, i, SpanEnd(s, i, CsvPieceChars) - 1)>> \o SplitFrom(s, SpanEnd(s, i, CsvPieceChars))

\* the position after `columna` or `columnas` at i when white space follows, else 0
AfterColumna(t, i) ==
    IF i + 6 > Len(t) \/ Lower(Ch(t, i)) # "c" \/ Lower(SubSeq(t, i, i + 6)) # "columna" THEN 0
    ELSE IF IsSpace(Ch(t, i + 7)) THEN i + 7
    ELSE IF Lower(Ch(t, i + 7)) = "s" /\ IsSpace(Ch(t, i + 8)) THEN i + 8
    ELSE 0

\* the pieces of csv_like[0]: the list after the first `columna(s)`
csv_like(t) ==
    TheOne({ IF i = 0 THEN <<>>
             ELSE TheOne({ SplitFrom(run, 1) :
                           run \in {SubSeq(t, AfterColumna(t, i),
                                           SpanEnd(t, AfterColumna(t, i), CsvPieceChars \o " ,/") - 1)} }) :
             i \in {FirstHit({j \in 1..Len(t) : AfterColumna(t, j) > 0})} })

RECURSIVE Dedupe(_, _, _)
\* lines 178-183: the first of the names that are equal once lowered
Dedupe(cols, i, seen) ==
    IF i > Len(cols) THEN <<>>
    ELSE IF Lower(cols[i]) \in seen THEN Dedupe(cols, i + 1, seen)
    ELSE <<cols[i]>> \o Dedupe(cols, i + 1, seen \cup {Lower(cols[i])})

RECURSIVE StripAll(_, _)
StripAll(xs, i) == IF i > Len(xs) THEN <<>> ELSE <<Strip(xs[i])>> \o StripAll(xs, i + 1)

RECURSIVE Without(_, _, _)
\* the quoted texts that are not the value of the filter
Without(xs, i, value) ==
    IF i > Len(xs) THEN <<>>
    ELSE (IF value # "" /\ Lower(Strip(xs[i])) = Lower(value) THEN <<>> ELSE <<xs[i]>>)
         \o Without(xs, i + 1, value)

_extract_columns(t) ==
    TheOne({ Dedupe(cols, 1, {}) :
             cols \in {StripAll(Without(QuotedFrom(t, 1), 1, filter_value(t)), 1) \o csv_like(t)} })

\* --- what spaCy reads ---
\* where the words of the instruction start
TokenStarts(t) == {i \in 1..Len(t) : StartsWord(t, i)}

\* the entities of a label: the words that are a pattern of the ruler
\* (lines 85-102), by their positions
Entities(t, keys) == {i \in TokenStarts(t) : WordAt(t, i) \in keys}
\* entities[label][0] lowered, "" when the list is empty
FirstEntity(t, keys) ==
    TheOne({ IF i = 0 THEN "" ELSE Lower(WordAt(t, i)) : i \in {FirstHit(Entities(t, keys))} })

LANG_MAP ==
       ("inglés" :> "EN") @@ ("ingles" :> "EN") @@ ("en" :> "EN")
    @@ ("español" :> "ES") @@ ("es" :> "ES")
    @@ ("alemán" :> "DE") @@ ("aleman" :> "DE") @@ ("de" :> "DE")
    @@ ("italiano" :> "IT") @@ ("it" :> "IT")
    @@ ("portugués" :> "PT") @@ ("portugues" :> "PT") @@ ("pt" :> "PT")

UNIT_CANON ==
       ("mm" :> "mm") @@ ("milimetro" :> "mm") @@ ("milímetros" :> "mm")
    @@ ("cm" :> "cm") @@ ("m" :> "m") @@ ("metro" :> "m")
    @@ ("in" :> "in") @@ ("inch" :> "in") @@ ("pulgada" :> "in") @@ ("pulgadas" :> "in")
    @@ ("ft" :> "ft")
    @@ ("kg" :> "kg") @@ ("g" :> "g") @@ ("gramo" :> "g") @@ ("gramos" :> "g")
    @@ ("lb" :> "lb") @@ ("libra" :> "lb") @@ ("libras" :> "lb")
    @@ ("l" :> "l") @@ ("litro" :> "l") @@ ("litros" :> "l")
    @@ ("ml" :> "ml")

\* the units of DESTINATION_PATTERNS
DestinationUnits == {"mm", "cm", "m", "in", "inch", "pulgada", "pulgadas", "ft", "kg", "g", "lb", "l", "ml"}

\* `\s+(mm|cm|...)\b` of the lowered text from position e: the unit, "" when it fails
UnitAfter(t, e) ==
    IF IsSpace(Ch(t, e)) /\ Lower(WordAt(t, LStripAt(t, e))) \in DestinationUnits
    THEN Lower(WordAt(t, LStripAt(t, e))) ELSE ""

\* a match of DESTINATION_PATTERNS in the lowered text starts at i: a or
\* en, or a los, a las, then a unit; the unit, "" when there is no match
DestinationAt(t, i) ==
    IF StartsWord(t, i) /\ Lower(WordAt(t, i)) \in {"a", "en"} /\ UnitAfter(t, WordEnd(t, i)) # ""
    THEN UnitAfter(t, WordEnd(t, i))
    ELSE IF /\ StartsWord(t, i) /\ Lower(WordAt(t, i)) = "a" /\ IsSpace(Ch(t, WordEnd(t, i)))
            /\ Lower(WordAt(t, LStripAt(t, WordEnd(t, i)))) \in {"los", "las"}
    THEN UnitAfter(t, WordEnd(t, LStripAt(t, WordEnd(t, i))))
    ELSE ""

\* lines 192-199; "" for None
_find_destination_unit(t) ==
    TheOne({ IF i = 0 THEN "" ELSE UNIT_CANON[DestinationAt(t, i)] :
             i \in {FirstHit({j \in TokenStarts(t) : DestinationAt(t, j) # ""})} })

\* the fallback lexicon of _load_lexicon (there is no config/lexicon.json)
Nominals ==
    [DATE    |-> {"fecha", "fechas", "fec", "date"},
     MEASURE |-> {"largo", "ancho", "alto", "medidas", "dimensiones", "longitud", "anchura", "altura"},
     DESC    |-> {"descripcion", "descripción", "detalle", "detalles", "desc", "concepto", "item", "items",
                  "ítem", "ítems"},
     MONEY   |-> {"monto", "importe", "total", "precio", "coste", "costo"},
     EXPORT  |-> {"salida", "formato", "xlsx", "excel", "csv"}]

RECURSIVE LowerFrom(_, _)
\* t[i-1:].lower(), eight characters at a time
LowerFrom(t, i) ==
    IF i > Len(t) THEN "" ELSE Lower(SubSeq(t, i, IF i + 7 < Len(t) THEN i + 7 ELSE Len(t))) \o LowerFrom(t, i + 8)

\* any(w.lower() in text.lower() for w in words)
_contains_any(t, words) ==
    \E low \in {LowerFrom(t, 1)} :
       \E w \in {Lower(x) : x \in words} :
          \E i \in 1..(Len(low) - Len(w) + 1) : SubSeq(low, i, i + Len(w) - 1) = w

\* lines 246-260: the date format, by the first pattern the instruction
\* holds (an entity DATEFMT is one of these patterns, in the same order)
DateFmtOf(t) ==
    IF _contains_any(t, {"dd/mm/aaaa", "dd/mm/yyyy"}) THEN "%d/%m/%Y"
    ELSE IF _contains_any(t, {"mm/dd/aaaa", "mm/dd/yyyy"}) THEN "%m/%d/%Y"
    ELSE IF _contains_any(t, {"iso"}) THEN "%Y-%m-%d"
    ELSE ""

\* lines 262-267, for the set ef of the entities EXPORTFMT
ExportFmtOf(ef) ==
    IF ef = {} THEN ""
    ELSE IF "xlsx" \in ef \/ "excel" \in ef THEN "xlsx"
    ELSE "csv"

\* extract_slots then normalize_slots; "" is None
Slots(t) ==
    [columns |->
        IF _extract_columns(t) # <<>> THEN _extract_columns(t)
        ELSE IF _contains_any(t, Nominals.DESC) THEN <<"descripcion">>
        ELSE IF _contains_any(t, Nominals.DATE) THEN <<"fecha">>
        ELSE IF _contains_any(t, Nominals.MONEY) THEN <<"monto">>
        ELSE <<>>,
     target_lang |->
        IF FirstEntity(t, DOMAIN LANG_MAP) # "" THEN LANG_MAP[FirstEntity(t, DOMAIN LANG_MAP)] ELSE "",
     unit_dest |->
        IF _find_destination_unit(t) # "" THEN _find_destination_unit(t)
        ELSE IF FirstEntity(t, DOMAIN UNIT_CANON) # "" THEN UNIT_CANON[FirstEntity(t, DOMAIN UNIT_CANON)]
        ELSE "",
     date_fmt |-> DateFmtOf(t),
     export_fmt |-> ExportFmtOf({Lower(WordAt(t, i)) : i \in Entities(t, {"csv", "xlsx", "excel"})}),
     filter |-> FilterSlot(t),
     mention_date |-> _contains_any(t, Nominals.DATE),
     mention_measure |-> _contains_any(t, Nominals.MEASURE),
     mention_desc |-> _contains_any(t, Nominals.DESC),
     mention_money |-> _contains_any(t, Nominals.MONEY),
     mention_export |-> _contains_any(t, Nominals.EXPORT)]

\* a pattern of intent_regex (lines 116-141) that one word can match: one
\* of the stems, then one of the characters of `next` when there are any
Pattern(stems, next) == [stems |-> stems, next |-> next]
intent_regex ==
    [RENAME    |-> {Pattern({"renombr", "llam", "etiquet"}, "aá")},
     FORMAT    |-> {Pattern({"format"}, "")},
     TRANSLATE |-> {Pattern({"traduc"}, "eií")},
     CONVERT   |-> {Pattern({"convert", "pas", "unific", "normaliz"}, "aáeéií")},
     FILTER    |-> {Pattern({"filtr", "mostr"}, "aáeéií"), Pattern({"contiene"}, "")},
     EXPORT    |-> {Pattern({"export", "guard", "descarg"}, "aáeéií"), Pattern({"csv", "xlsx", "excel"}, "")}]

\* re.search of a pattern in the lowered text of a token
SearchToken(pattern, token) ==
    \E i \in 1..Len(token) : \E s \in pattern.stems :
       /\ i + Len(s) - 1 <= Len(token)
       /\ SubSeq(token, i, i + Len(s) - 1) = s
       /\ pattern.next = "" \/ InStr(Ch(token, i + Len(s)), pattern.next)

\* detect_intents: the intents a word of the instruction matches.  The
\* words of LEXICON["intents"] match a pattern of their intent, and the
\* phrases of the lexicon and of the PhraseMatcher hold such a word.
detect_intents(t) ==
    UNION { {label \in DOMAIN intent_regex : \E pattern \in intent_regex[label] : SearchToken(pattern, token)} :
            token \in {Lower(WordAt(t, i)) : i \in TokenStarts(t)} }

\* --- build_plan (lines 326-396) ---
StrList(xs) == PyList([i \in DOMAIN xs |-> PyStr(xs[i])])
DateNames == {"fecha", "fec", "date"}

RECURSIVE NotDates(_, _)
\* [c for c in cols if c.lower() not in ["fecha", "fec", "date"]]
NotDates(cols, i) ==
    IF i > Len(cols) THEN <<>>
    ELSE (IF Lower(cols[i]) \in DateNames THEN <<>> ELSE <<cols[i]>>) \o NotDates(cols, i + 1)

RECURSIVE FirstDate(_, _)
\* next((c for c in cols if c.lower() in ["fecha", "fec", "date"]), "fecha")
FirstDate(cols, i) ==
    IF i > Len(cols) THEN "fecha"
    ELSE IF Lower(cols[i]) \in DateNames THEN cols[i] ELSE FirstDate(cols, i + 1)

RECURSIVE PairsMap(_, _, _)
\* {a: b for a, b in zip(cols[0::2], cols[1::2])}
PairsMap(cols, i, d) ==
    IF i + 1 > Len(cols) THEN d
    ELSE PairsMap(cols, i + 2, DictSet(d, cols[i], PyStr(cols[i + 1])))

\* an entry of report["decisions"]; the confidence in hundredths
Decision(op, why, confidence) == [op |-> op, why |-> why, confidence |-> confidence]
\* what a part of build_plan appends to the plan and to the decisions
NoPlan == [plan |-> <<>>, decisions |-> <<>>]
Decided(step, decision) == [plan |-> step, decisions |-> <<decision>>]

\* lines 339-342
RenamePart(I, S) ==
    IF "RENAME" \in I /\ Len(S.columns) >= 2
    THEN Decided(<<Step("rename_columns", <<Entry("map", PairsMap(S.columns, 1, PyDict(<<>>)))>>)>>,
                 Decision("rename_columns", "RENAME + pares de columnas detectadas", 85))
    ELSE NoPlan

\* lines 345-349
FormatPart(I, S, t) ==
    IF "FORMAT" \in I \/ S.date_fmt # ""
    THEN Decided(
                 <<Step("format_date",
                        <<Entry("column", PyStr(IF _contains_any(t, {"fecha"}) THEN "fecha" ELSE FirstDate(S.columns, 1))),
                          Entry("input_fmt", PyStr("infer")),
                          Entry("output_fmt", PyStr(IF S.date_fmt # "" THEN S.date_fmt ELSE "%Y-%m-%d"))>>)>>,
                 Decision("format_date", "FORMAT o nominal + DATEFMT", IF S.date_fmt # "" THEN 80 ELSE 65))
    ELSE NoPlan

\* lines 352-356
TranslatePart(I, S) ==
    IF "TRANSLATE" \in I \/ (S.target_lang # "" /\ S.mention_desc)
    THEN Decided(
                 <<Step("translate_values",
                        <<Entry("columns", StrList(IF NotDates(S.columns, 1) # <<>> THEN NotDates(S.columns, 1)
                                                   ELSE <<"descripcion">>)),
                          Entry("target_lang", PyStr(IF S.target_lang # "" THEN S.target_lang ELSE "EN"))>>)>>,
                 Decision("translate_values", "TRANSLATE o nominal + idioma", IF S.target_lang # "" THEN 75 ELSE 70))
    ELSE NoPlan

\* lines 359-366
ConvertPart(I, S) ==
    IF "CONVERT" \in I \/ (S.unit_dest # "" /\ S.mention_measure)
    THEN IF S.unit_dest # ""
         THEN Decided(
                      <<Step("convert_units",
                             <<Entry("columns", StrList(IF S.columns # <<>> THEN S.columns
                                                        ELSE <<"largo", "ancho", "alto">>)),
                               Entry("target_unit", PyStr(S.unit_dest))>>)>>,
                      Decision("convert_units", "CONVERT/nominal + unidad destino inequívoca", 80))
         ELSE Decided(<<>>,
                      Decision("convert_units", "CONVERT sin unidad destino inequívoca (no se aplica)", 30))
    ELSE NoPlan

\* the dict literal of line 377, {"op": "filter_compare", "column": ...,
\* "op": f["op"], "value": ...}: the keys are set one after the other
CompareStep(f) ==
    DictSet(DictSet(DictSet(DictSet(PyDict(<<>>), "op", PyStr("filter_compare")),
                            "column", PyStr(f.column)),
                    "op", PyStr(f.op)),
            "value", PyStr(f.value))

\* lines 372-379
FilterStep(f) ==
    IF f.type = "eq"
    THEN <<Step("filter_equals", <<Entry("column", PyStr(f.column)), Entry("value", PyStr(f.value))>>)>>
    ELSE IF f.type = "contains"
    THEN <<Step("filter_contains", <<Entry("column", PyStr(f.column)), Entry("value", PyStr(f.value))>>)>>
    ELSE IF f.type = "cmp"
    THEN <<CompareStep(f)>>
    ELSE IF f.type = "between"
    THEN <<Step("filter_between", <<Entry("range", StrList(<<f.value, f.hi>>))>>)>>
    ELSE <<>>

\* lines 369-382
FilterPart(I, S) ==
    IF "FILTER" \in I \/ S.filter.ok
    THEN IF S.filter.ok
         THEN Decided(FilterStep(S.filter), Decision("filter", "patrón de filtro reconocido", 90))
         ELSE Decided(<<>>, Decision("filter", "intención FILTER sin patrón claro", 40))
    ELSE NoPlan

\* lines 385-388
CurrencyPart(prior, S, t) ==
    IF /\ _contains_any(t, {"usd", "dólar", "dolar"})
       /\ ~\E i \in DOMAIN prior : DictGet(prior[i], "op") = PyStr("currency_to")
    THEN Decided(
                 <<Step("currency_to",
                        <<Entry("columns", StrList(IF NotDates(S.columns, 1) # <<>> THEN NotDates(S.columns, 1)
                                                   ELSE <<"monto", "importe", "total">>)),
                          Entry("target", PyStr("USD")),
                          Entry("rate", PyStr("ask_user|table"))>>)>>,
                 Decision("currency_to", "mención de USD/dólar", 60))
    ELSE NoPlan

\* the format of the export step (line 392)
ExportFormat(S, t) ==
    IF S.export_fmt # "" THEN S.export_fmt ELSE IF _contains_any(t, {"excel"}) THEN "xlsx" ELSE "csv"

\* lines 391-394
ExportPart(I, S, t) ==
    IF "EXPORT" \in I \/ S.export_fmt # ""
    THEN Decided(
                 <<Step("export", <<Entry("format", PyStr(ExportFormat(S, t))),
                                    Entry("path", PyStr("output/resultado." \o ExportFormat(S, t)))>>)>>,
                 Decision("export", "EXPORT o nominal + formato", IF S.export_fmt # "" THEN 95 ELSE 70))
    ELSE NoPlan

\* the plan when the currency part is reached
BeforeCurrency(I, S, t) ==
    RenamePart(I, S).plan \o FormatPart(I, S, t).plan \o TranslatePart(I, S).plan
    \o ConvertPart(I, S).plan \o FilterPart(I, S).plan

\* (plan, report["decisions"]) of build_plan(intents, slots, raw_text); the
\* tests `k in t` on t = raw_text.lower() are _contains_any(raw_text, {k})
build_plan(I, S, t) ==
    [plan |->
        BeforeCurrency(I, S, t)
        \o CurrencyPart(BeforeCurrency(I, S, t), S, t).plan
        \o ExportPart(I, S, t).plan,
     decisions |->
        RenamePart(I, S).decisions \o FormatPart(I, S, t).decisions \o TranslatePart(I, S).decisions
        \o ConvertPart(I, S).decisions \o FilterPart(I, S).decisions
        \o CurrencyPart(BeforeCurrency(I, S, t), S, t).decisions
        \o ExportPart(I, S, t).decisions]

\* --- the instructions ---
ClauseLeads   == {"filtrar donde ", "mostrar ", "donde ", ""}
ClauseColumns == {"monto", "Total", "precio_unitario"}
ClauseOps     == {">", ">=", "<", "<="}
ClauseGlues   == {" ", ""}
ClauseValues  == {"100", "99,5", "1.500,50"}
ClauseTails   == {"", " y exportar a csv"}
Clause(column, op, glue, value) == column \o glue \o op \o glue \o value

\* instructions with a comparison clause
ComparisonInstructions ==
    {lead \o Clause(c, o, g, v) \o tail :
        lead \in ClauseLeads, c \in ClauseColumns, o \in ClauseOps, g \in ClauseGlues,
        v \in ClauseValues, tail \in ClauseTails}

OtherInstructions ==
    { "renombrar \"Cliente\" a \"cliente_nombre\"",
      "renombrar columnas Cliente, Nombre",
      "formatear la fecha a dd/mm/aaaa",
      "fecha en formato iso",
      "traducir la descripcion al ingles",
      "descripcion en aleman",
      "convertir largo a cm",
      "pasar las medidas a las pulgadas",
      "convertir las medidas",
      "largo en mm",
      "donde cliente = \"ACME\" y monto > 100",
      "filtrar donde cliente = 'ACME'",
      "mostrar descripcion contiene \"tornillo\"",
      "filtrar fecha entre 2024-01-01 y 2024-12-31",
      "filtrar los grandes",
      "pasar monto a usd",
      "guardar en excel",
      "salida xlsx",
      "" }

Instructions == ComparisonInstructions \cup OtherInstructions

NoSlots == <<>>
NoReport == <<>>

InitSpacy ==
    /\ raw_text \in Instructions
    /\ intents = {} /\ slots = NoSlots /\ spacy_plan = <<>> /\ report = NoReport
    /\ spc = "start"
    /\ tags_or_list = PyNone /\ plan = <<>> /\ docs = <<>> /\ di = 1 /\ si = 1
    /\ keep = TRUE /\ out = <<>> /\ epc = "idle" /\ applied = <<>>
    /\ text = PyNone /\ raw = PyNone /\ plan_llm = <<>> /\ plan_h = <<>>
    /\ final_plan = <<>> /\ meta = PyNone /\ cpc = "idle" /\ chat = "none"
    /\ names = <<>> /\ files = <<>> /\ now = 0 /\ calls = <<>> /\ remote = <<>>
    /\ reqlog = <<>>
    /\ odoc = PyNone /\ ostep = PyNone /\ opc = "idle" /\ oret = PyNone
    /\ env = <<>> /\ olog = <<>>
    /\ ureg = <<>> /\ uw = <<>>

\* nlp/pipeline.py lines 175-177, interpret_with_spacy lines 400-407: the
\* instruction is read, its intents and slots found, the plan built
interpret_instructions ==
    /\ spc = "start"
    /\ intents' = detect_intents(raw_text)
    /\ slots' = Slots(raw_text)
    /\ spacy_plan' = build_plan(intents', slots', raw_text).plan
    /\ report' = build_plan(intents', slots', raw_text).decisions
    /\ spc' = "done"
    /\ UNCHANGED <<raw_text, execVars, compVars, rateVars, opsVars, unitVars>>

SpacyNext == interpret_instructions
SpecSpacy == InitSpacy /\ [][SpacyNext]_vars

\* tests/test_instructions.py lines 18-19: the steps of the plan with the op
find_op(p, op_name) == {i \in DOMAIN p : DictGet(p[i], "op") = PyStr(op_name)}

\* lines 70-72: re.search(r"^\s*\d+[.,]?\d*\s*$", s)
value_like_number(s) ==
    /\ SpanEnd(s, LStripAt(s, 1), DigitChars) > LStripAt(s, 1)
    /\ LStripAt(s, SpanEnd(s, IF InStr(Ch(s, SpanEnd(s, LStripAt(s, 1), DigitChars)), ".,")
                              THEN SpanEnd(s, LStripAt(s, 1), DigitChars) + 1
                              ELSE SpanEnd(s, LStripAt(s, 1), DigitChars),
                           DigitChars)) > Len(s)

\* the comparison clause of an instruction: a column, an operator, a number
ComparisonClause(t) == m_cmp(t)

\* C26: for an instruction that holds a comparison clause such as
\* `monto > 100`, the plan built by interpret_instructions has a step that a
\* search for op filter_compare finds, and that step carries the column of
\* the clause, its comparison operator and its number-like value.
C26_ComparisonGivesFilterCompare ==
    ( /\ spc = "done"
      /\ ComparisonClause(raw_text).ok
      /\ value_like_number(ComparisonClause(raw_text).value) )
      => \E i \in find_op(spacy_plan, "filter_compare") :
            /\ DictGet(spacy_plan[i], "column") = PyStr(ComparisonClause(raw_text).column)
            /\ \E j \in DOMAIN spacy_plan[i].xs :
                  spacy_plan[i].xs[j].v = PyStr(ComparisonClause(raw_text).op)
            /\ DictGet(spacy_plan[i], "value").t = "str"
            /\ value_like_number(DictGet(spacy_plan[i], "value").s)
=========================================================================
